---- MODULE Spec2Model ----
(***************************************************************************)
(* Model of auto_notification: the notification cycle of app.py            *)
(* (notify_once_for_starts / notify_once_with_page), the state store       *)
(* (_load_notified / _save_notified), the dispatcher (send_email,          *)
(* send_line, _append_history), and the poll orchestrator (run_poller of   *)
(* scripts/poller.py).                                                     *)
(*                                                                         *)
(* Environment of Spec and SpecReplay and SpecDispatch: the local files    *)
(* (notified.json, notifications.jsonl, notification.log, recipients.txt)  *)
(* can be read and written.  Renderer failures, provider failures, absent  *)
(* or malformed configuration, empty recipient lists and every shape of    *)
(* the state file are part of the environment.                             *)
(*                                                                         *)
(* SpecFaults: the cycles of Spec while a read or a write of notified.json *)
(* can fail.  SpecPoller and SpecPollerFair: run_poller of                 *)
(* scripts/poller.py with recipients.txt empty; sessions, ticks and the    *)
(* stop signal are free.  SpecPollerFaults: run_poller while               *)
(* notification.log can become unwritable.                                 *)
(*                                                                         *)
(* SpecNormalize: the post-processing of fetch_parsed_with_page on the     *)
(* items the page returned.  SpecFollow: follow_file of                    *)
(* scripts/monitor_poller.py on a path that is appended to and rotated.    *)
(* SpecMonitor: monitor_loop, its two handler threads and its rollup loop  *)
(* interleaved at the granularity of the evaluation of stats[key], the     *)
(* append, the list comprehension and the assignment.  SpecSecrets:        *)
(* dump_env_status of scripts/poller.py and send_line.                     *)
(***************************************************************************)
EXTENDS Integers, Sequences, FiniteSets, TLC

VARIABLES
    notifiedFile,   \* content of notified.json (NOTIFIED_PATH)
    history,        \* notifications.jsonl: the audit log, one entry per line
    pc,             \* position of the notification cycle: idle / fetching /
                    \* done (returned) / raised
    recipients,     \* cycle local: result of _read_recipients()
    prev,           \* cycle local: state loaded at the start of the cycle
    new_notified,   \* cycle local: the updated state
    produced,       \* cycle local: the notifiable records
    fetched,        \* results of the fetches of this cycle, one per start date
    emailCalls,     \* the send_email calls made by this cycle
    lastCycle,      \* the previous cycle: whether one completed, and the keys
                    \* it observed as 'full' every time
    plan,           \* SpecReplay: the fetch results every cycle receives
    lastCall,       \* SpecDispatch: the last direct call of send_email / send_line
    readOk,         \* the cycle could open and read notified.json
    written,        \* how _save_notified of the cycle ended ("none": not called)
    STOP,           \* poller.py: the flag set by the signal handler
    ppc,            \* position of run_poller ("off": not running)
    backoff,        \* run_poller local: the delay of the next backoff wait
    sessionOpen,    \* run_poller: a page and browser are open
    slept,          \* run_poller local: time slept in the inter-tick sleep,
                    \* in half seconds
    to_sleep,       \* run_poller local: time to sleep between two ticks, in
                    \* half seconds
    lastTick,       \* how the last tick on the current session ended
    waits,          \* backoff waits since the last successful acquisition
    failStreak,     \* failed acquisitions since the last successful one
    stopSeen,       \* run_poller has read STOP = True in one of its tests
    stopAt,         \* position of run_poller when the stop request arrived
    logOk,          \* notification.log can be written
    tickFailures,   \* the sessions in a row, up to MaxTickFailures, that were
                    \* acquired and ended by an exception of a tick
    data,           \* fetch_parsed_with_page: the items page.evaluate returned
    deduped,        \* fetch_parsed_with_page: the records it returns
    fpc,            \* position of fetch_parsed_with_page ("off": not called)
    fileLen,        \* the number of lines of each file of the followed path,
                    \* by inode
    pathIno,        \* the inode the followed path names (NoFile: none)
    inodesUsed,     \* the files created under the followed path so far
    fh,             \* follow_file local: the inode of the open file (NoFile:
                    \* fh is None)
    fhPos,          \* follow_file: the lines of fh before its read position
    last_inode,     \* follow_file local
    delivered,      \* the lines passed to callback, in order: <<inode, number>>
    reopened,       \* follow_file has left a file after a read-miss
    now,            \* datetime.utcnow() of the monitor, in minutes
    advances,       \* the times the clock has moved
    stats,          \* monitor_loop: the lists of (timestamp, line) by key
    handling,       \* each handler's position: "idle", or "loaded" between
                    \* the evaluation of stats[key] and the call of append
    hkey,           \* the key whose list a handler has loaded
    hstale,         \* the list a handler has loaded is no longer stats[key]
    rpc,            \* the rollup loop's position
    rkey,           \* the index in TruncateOrder of the list being truncated
    pending,        \* the filtered list not yet assigned to stats[key]
    observed,       \* the times of the matching lines the handlers have
                    \* acted on, by the list appended to ("none": no list)
    alerts,         \* the ALERT lines written
    report,         \* the last rollup: the stronger alerts it wrote
    poller_log,     \* the env lines dump_env_status has written, each with
                    \* the environment it was written from
    tasks,          \* the cycles of _background_loop and api_notify_now that
                    \* run in one event loop: position and locals of each
    world,          \* the status of each slot of the calendar while they run
    sees            \* the slots the start dates of each of them show

cycleVars == <<notifiedFile, history, pc, recipients, prev, new_notified,
               produced, fetched, emailCalls, lastCycle, plan, lastCall,
               readOk, written>>

pollerVars == <<STOP, ppc, backoff, sessionOpen, slept, to_sleep, lastTick,
                waits, failStreak, stopSeen, stopAt, logOk, tickFailures>>

normVars == <<data, deduped, fpc>>

followVars == <<fileLen, pathIno, inodesUsed, fh, fhPos, last_inode, delivered, reopened>>

monitorVars == <<now, advances, stats, handling, hkey, hstale, rpc, rkey,
                 pending, observed, alerts, report>>

taskVars == <<tasks, world, sees>>

\* the variables outside the notification cycle and run_poller
sideVars == <<normVars, followVars, monitorVars, poller_log, taskVars>>

\* the variables outside fetch_parsed_with_page
normFrame == <<cycleVars, pollerVars, followVars, monitorVars, poller_log,
    taskVars>>

\* the variables outside follow_file
followFrame == <<cycleVars, pollerVars, normVars, monitorVars, poller_log,
    taskVars>>

\* the variables outside monitor_loop
monitorFrame == <<cycleVars, pollerVars, normVars, followVars, poller_log,
    taskVars>>

\* the variables outside dump_env_status
dumpFrame == <<cycleVars, pollerVars, normVars, followVars, monitorVars,
    taskVars>>

\* the variables the interleaved cycles leave alone: all but notified.json,
\* the audit log and their own
taskFrame == <<pc, recipients, prev, new_notified, produced, fetched,
               emailCalls, lastCycle, plan, lastCall, readOk, written,
               pollerVars, normVars, followVars, monitorVars, poller_log>>

vars == <<cycleVars, pollerVars, sideVars>>

(***************************************************************************)
(* Bounds                                                                  *)
(***************************************************************************)
\* A cycle or a direct dispatcher call starts only while the audit log holds
\* fewer than MaxHistory entries.
MaxHistory == 1

(***************************************************************************)
(* Data model                                                              *)
(***************************************************************************)
\* Python's None
None == "None"

\* the statuses fetch_parsed_with_page assigns
Statuses == {"available", "full", "not_started", "other"}

\* the statuses the renderer reports in the model; the state file can hold
\* every status from earlier observations
ObservedStatuses == {"available", "full"}

\* status given by _load_notified to the keys of a legacy state file
Placeholder == "notified"

\* The slots of the monitored calendar, ascending by (date, time).
SlotOrder ==
    << [date |-> "2025-11-09", time |-> "13:00", service_cd |-> "7",
        start_raw |-> "2025/11/09 13:00:00"],
       [date |-> "2025-11-16", time |-> "09:00", service_cd |-> "7",
        start_raw |-> "2025/11/16 09:00:00"] >>

NumSlots == Len(SlotOrder)

\* A parsed record of fetch_parsed_with_page (the fields the cycle reads).
SlotRecord(slot, status) ==
    [date |-> slot.date, time |-> slot.time, status |-> status,
     service_cd |-> slot.service_cd, start_raw |-> slot.start_raw]

\* _slot_key: the tuple (date, time, service_cd, start_raw)
SlotKey(item) == <<item.date, item.time, item.service_cd, item.start_raw>>

\* json.dumps of one element of a key: None becomes null, a string is quoted
JsonValue(v) == IF v = None THEN "null" ELSE "\"" \o v \o "\""

\* _key_to_str: json.dumps(list(key_tuple))
KeyToStr(key_tuple) ==
    "[" \o JsonValue(key_tuple[1]) \o ", " \o JsonValue(key_tuple[2]) \o ", "
        \o JsonValue(key_tuple[3]) \o ", " \o JsonValue(key_tuple[4]) \o "]"

KeyStrOf(item) == KeyToStr(SlotKey(item))

AllKeys == {SlotKey(SlotOrder[i]) : i \in 1..NumSlots}
AllKeyStrs == {KeyToStr(k) : k \in AllKeys}

(***************************************************************************)
(* Python dicts: functions on a finite set of strings                      *)
(***************************************************************************)
EmptyDict == [k \in {} |-> None]

\* d.get(k)
Get(d, k) == IF k \in DOMAIN d THEN d[k] ELSE None

\* d[k] = v
Put(d, k, v) == [x \in (DOMAIN d) \cup {k} |-> IF x = k THEN v ELSE d[x]]

(***************************************************************************)
(* Renderer: what one fetch (fetch_parsed_impl / fetch_parsed_with_page)   *)
(* returns.  A batch is deduped by key and sorted by (date, time).         *)
(***************************************************************************)
Absent == "absent"

RECURSIVE BatchFrom(_, _)
\* the records of the slots i..NumSlots that choice shows, in slot order
BatchFrom(choice, i) ==
    IF i > NumSlots THEN <<>>
    ELSE IF choice[i] = Absent THEN BatchFrom(choice, i + 1)
    ELSE <<SlotRecord(SlotOrder[i], choice[i])>> \o BatchFrom(choice, i + 1)

Batches ==
    {BatchFrom(choice, 1) :
        choice \in [1..NumSlots -> ObservedStatuses \cup {Absent}]}

\* a fetch returns a batch or raises
FetchResults ==
    {[ok |-> TRUE, items |-> b] : b \in Batches}
        \cup {[ok |-> FALSE, items |-> <<>>]}

\* the start dates a cycle is given: today and today + 7 days
Starts == <<"2025-11-09", "2025-11-16">>

(***************************************************************************)
(* Normalizer: the post-processing of fetch_parsed_with_page               *)
(***************************************************************************)
\* the longest list of items page.evaluate returns
MaxRaw == 3

\* the values of the start input of an item
RawStarts ==
    {"2025/11/09 13:00:00", "2025/11/09 13:00:00 ", "2025-11-16T09:00", "",
     "9999/12/32 10:00"}

\* the icon classes of an item
RawIcons == {"fa-times", "fa-circle"}

\* an item returned by page.evaluate (the fields the slot key and the status
\* are made of)
RawItems == [start : RawStarts, service_cd : {"7", "8"}, icon_class : RawIcons]

RawLists == UNION {[1..n -> RawItems] : n \in 0..MaxRaw}

\* str.strip
Strip(text) ==
    IF text = "2025/11/09 13:00:00 " THEN "2025/11/09 13:00:00" ELSE text

\* the date the two regular expressions find in start_raw (both accept any
\* digits), None when neither matches
DateOf(start_raw) ==
    CASE start_raw = "2025/11/09 13:00:00" -> "2025-11-09"
      [] start_raw = "2025-11-16T09:00" -> "2025-11-16"
      [] start_raw = "9999/12/32 10:00" -> "9999-12-32"
      [] OTHER -> None

\* the time the two regular expressions find in start_raw
TimeOf(start_raw) ==
    CASE start_raw = "2025/11/09 13:00:00" -> "13:00"
      [] start_raw = "2025-11-16T09:00" -> "09:00"
      [] start_raw = "9999/12/32 10:00" -> "10:00"
      [] OTHER -> None

\* the status given to an item by its icon
StatusOf(icon_class) == IF icon_class = "fa-times" THEN "full" ELSE "available"

\* results.append({...}) for one item
ParseItem(item) ==
    [date |-> DateOf(Strip(item.start)), time |-> TimeOf(Strip(item.start)),
     status |-> StatusOf(item.icon_class), service_cd |-> item.service_cd,
     start_raw |-> Strip(item.start)]

\* the loop "for item in data"
ParseItems(items) == [i \in 1..Len(items) |-> ParseItem(items[i])]

\* Mutant of DedupeFrom: the last record of a key replaces the earlier one.
RECURSIVE DedupeLastWins(_, _, _)
DedupeLastWins(results, seen, out) ==
    IF results = <<>> THEN out
    ELSE LET r == Head(results)
             IsOther(x) == SlotKey(x) # SlotKey(r)
         IN  DedupeLastWins(Tail(results), seen \cup {SlotKey(r)},
                            Append(SelectSeq(out, IsOther), r))

\* the loop "for r in results": a record whose key is in seen is skipped
RECURSIVE DedupeFrom(_, _, _)
DedupeFrom(results, seen, out) ==
    IF results = <<>> THEN out
    ELSE LET r == Head(results)
         IN  IF SlotKey(r) \in seen
             THEN DedupeFrom(Tail(results), seen, out)
             ELSE DedupeFrom(Tail(results), seen \cup {SlotKey(r)},
                             Append(out, r))

\* the dates and the times of the model in the order of Python's string
\* comparison
DateOrder == <<"2025-11-09", "2025-11-16", "9999-12-31", "9999-12-32">>
TimeOrder == <<"09:00", "10:00", "13:00", "99:99">>

\* the place of a string in an order
Rank(order, text) == CHOOSE i \in 1..Len(order) : order[i] = text

\* sort_key: (date or '9999-12-31', time or '99:99')
SortKey(x) ==
    <<IF x.date = None THEN "9999-12-31" ELSE x.date,
      IF x.time = None THEN "99:99" ELSE x.time>>

\* a <= b for two sort keys (tuples of strings)
KeyLeq(a, b) ==
    \/ Rank(DateOrder, a[1]) < Rank(DateOrder, b[1])
    \/ a[1] = b[1] /\ Rank(TimeOrder, a[2]) <= Rank(TimeOrder, b[2])

\* x put into a sorted list behind the records whose key is not greater
RECURSIVE InsertSorted(_, _)
InsertSorted(sorted, x) ==
    IF sorted = <<>> THEN <<x>>
    ELSE IF KeyLeq(SortKey(Head(sorted)), SortKey(x))
        THEN <<Head(sorted)>> \o InsertSorted(Tail(sorted), x)
    ELSE <<x>> \o sorted

\* list.sort(key=sort_key): a stable sort
RECURSIVE SortFrom(_, _)
SortFrom(seq, sorted) ==
    IF seq = <<>> THEN sorted
    ELSE SortFrom(Tail(seq), InsertSorted(sorted, Head(seq)))

\* the post-processing of fetch_parsed_with_page: parse, dedupe, sort
PostProcess(items) == SortFrom(DedupeFrom(ParseItems(items), {}, <<>>), <<>>)

\* fetch_parsed_with_page is not running
NormalizerOff ==
    /\ data = <<>>
    /\ deduped = <<>>
    /\ fpc = "off"

\* fetch_parsed_with_page from the return of page.evaluate(js) to its return
FetchPostProcess ==
    /\ fpc = "evaluated"
    /\ deduped' = PostProcess(data)
    /\ fpc' = "returned"
    /\ UNCHANGED data
    /\ UNCHANGED normFrame

(***************************************************************************)
(* Log follower: follow_file of scripts/monitor_poller.py                  *)
(***************************************************************************)
\* the files the followed path names one after the other
MaxFiles == 3

\* the most lines a file gets
MaxLines == 2

\* no file: the path does not exist, fh is None, last_inode is None
NoFile == 0

Inodes == 1..MaxFiles

\* follow_file has not been called and the path does not exist
FollowerOff ==
    /\ fileLen = [i \in Inodes |-> 0]
    /\ pathIno = NoFile
    /\ inodesUsed = 0
    /\ fh = NoFile
    /\ fhPos = 0
    /\ last_inode = NoFile
    /\ delivered = <<>>
    /\ reopened = FALSE

\* the writer of the log appends a line to the file the path names
LogAppend ==
    /\ pathIno # NoFile
    /\ fileLen[pathIno] < MaxLines
    /\ fileLen' = [fileLen EXCEPT ![pathIno] = @ + 1]
    /\ UNCHANGED <<pathIno, inodesUsed, fh, fhPos, last_inode, delivered, reopened>>
    /\ UNCHANGED followFrame

\* rotation: the path is renamed away, and a new file is created under it
\* at once or later
LogRotate ==
    /\ pathIno # NoFile
    /\ \E created \in BOOLEAN :
        IF created
        THEN /\ inodesUsed < MaxFiles
             /\ pathIno' = inodesUsed + 1
             /\ inodesUsed' = inodesUsed + 1
        ELSE /\ pathIno' = NoFile
             /\ UNCHANGED inodesUsed
    /\ UNCHANGED <<fileLen, fh, fhPos, last_inode, delivered, reopened>>
    /\ UNCHANGED followFrame

\* a file is created under the path that names none
LogCreate ==
    /\ pathIno = NoFile
    /\ inodesUsed < MaxFiles
    /\ pathIno' = inodesUsed + 1
    /\ inodesUsed' = inodesUsed + 1
    /\ UNCHANGED <<fileLen, fh, fhPos, last_inode, delivered, reopened>>
    /\ UNCHANGED followFrame

\* if fh is None: the path exists; open, seek(0, SEEK_END), fstat
FollowOpen ==
    /\ fh = NoFile
    /\ pathIno # NoFile
    /\ fh' = pathIno
    /\ fhPos' = fileLen[pathIno]
    /\ last_inode' = pathIno
    /\ UNCHANGED <<fileLen, pathIno, inodesUsed, delivered, reopened>>
    /\ UNCHANGED followFrame

\* line = fh.readline(): a line is passed to callback; at the end of the
\* file the inode of the path is compared with last_inode
FollowRead ==
    /\ fh # NoFile
    /\ IF fhPos < fileLen[fh]
       THEN /\ delivered' = Append(delivered, <<fh, fhPos + 1>>)
            /\ fhPos' = fhPos + 1
            /\ UNCHANGED <<fh, last_inode, reopened>>
       ELSE IF pathIno = NoFile
       THEN /\ fh' = NoFile
            /\ reopened' = TRUE
            /\ UNCHANGED <<fhPos, last_inode, delivered>>
       ELSE IF pathIno # last_inode
       THEN /\ fh' = NoFile
            /\ last_inode' = NoFile
            /\ reopened' = TRUE
            /\ UNCHANGED <<fhPos, delivered>>
       ELSE UNCHANGED <<fh, fhPos, last_inode, delivered, reopened>>
    /\ UNCHANGED <<fileLen, pathIno, inodesUsed>>
    /\ UNCHANGED followFrame

(***************************************************************************)
(* Log monitor: monitor_loop of scripts/monitor_poller.py                  *)
(***************************************************************************)
\* the matching lines the handlers act on
MaxEvents == 5

\* the times the clock moves
MaxAdvances == 1

\* timedelta(minutes=10)
Window == 10

\* timedelta(hours=6), in minutes
Retention == 360

\* len(smtp_fail_recent) >= 1
FailThreshold == 1

\* len(dry_recent) >= 5
DryThreshold == 5

\* the time that passes between two steps: past the window, past the
\* retention horizon
ClockSteps == {Window + 1, Retention + 1}

StatKeys == {"dry_run_events", "smtp_fail_events", "smtp_success"}

\* the order of the three truncating assignments
TruncateOrder == <<"dry_run_events", "smtp_fail_events", "smtp_success">>

\* the two follower threads, by the stream each follows
Followers == {"poller", "notif"}

\* the keys a line of each stream can be appended to: handle_poller_line
\* applies DRY_RUN_RE and SMTP_FAIL_RE, handle_notif_line DRY_RUN_RE and
\* SMTP_SUCCESS_RE
HandlerKeys(f) ==
    IF f = "poller"
    THEN {"dry_run_events", "smtp_fail_events"}
    ELSE {"dry_run_events", "smtp_success"}

\* the pattern class of the lines of a list
KindOf(key) ==
    CASE key = "dry_run_events" -> "dry"
      [] key = "smtp_fail_events" -> "fail"
      [] OTHER -> "ok"

\* a matching line is appended to a list, or (an entry with "method" and
\* "failed") to none
ObservedKeys == StatKeys \cup {"none"}

NoReport == [made |-> FALSE, critical |-> FALSE, warning |-> FALSE]

\* monitor_loop has not been called
MonitorOff ==
    /\ now = 0
    /\ advances = 0
    /\ stats = [k \in StatKeys |-> <<>>]
    /\ handling = [f \in Followers |-> "idle"]
    /\ hkey = [f \in Followers |-> "none"]
    /\ hstale = [f \in Followers |-> FALSE]
    /\ rpc = "off"
    /\ rkey = 1
    /\ pending = <<>>
    /\ observed = [k \in ObservedKeys |-> <<>>]
    /\ alerts = 0
    /\ report = NoReport

\* time passes
ClockAdvance ==
    /\ rpc # "off"
    /\ advances < MaxAdvances
    /\ \E d \in ClockSteps : now' = now + d
    /\ advances' = advances + 1
    /\ UNCHANGED <<stats, handling, hkey, hstale, rpc, rkey, pending,
                   observed, alerts, report>>
    /\ UNCHANGED monitorFrame

\* the lines the handlers have acted on or are about to
EventsStarted ==
    Len(observed["dry_run_events"]) + Len(observed["smtp_fail_events"])
    + Len(observed["smtp_success"]) + Len(observed["none"])
    + Cardinality({f \in Followers : handling[f] = "loaded"})

\* a handler reads a line that matches the pattern of a list and evaluates
\* stats[key]
HandlerLoad(f) ==
    /\ rpc # "off"
    /\ handling[f] = "idle"
    /\ EventsStarted < MaxEvents
    /\ \E key \in HandlerKeys(f) : hkey' = [hkey EXCEPT ![f] = key]
    /\ handling' = [handling EXCEPT ![f] = "loaded"]
    /\ hstale' = [hstale EXCEPT ![f] = FALSE]
    /\ UNCHANGED <<now, advances, stats, rpc, rkey, pending, observed,
                   alerts, report>>
    /\ UNCHANGED monitorFrame

\* the entry of a list: (datetime.utcnow(), line.strip()); the line is
\* identified by its number among the lines of the list
Event(ts, id) == [ts |-> ts, id |-> id]

\* .append on the list the handler has loaded: the list is stats[key], or a
\* list the rollup has replaced
AppendTo(f, key, e) ==
    IF hstale[f] THEN stats ELSE [stats EXCEPT ![key] = Append(@, e)]

\* the handler appends (utcnow(), line) to the list it has loaded and writes
\* the ALERT of a dry-run or failure line
HandlerAppend(f) ==
    /\ handling[f] = "loaded"
    /\ LET key == hkey[f]
           id == Len(observed[key]) + 1
       IN  /\ stats' = AppendTo(f, key, Event(now, id))
           /\ observed' = [observed EXCEPT ![key] = Append(@, now)]
           /\ alerts' = IF KindOf(key) = "ok" THEN alerts ELSE alerts + 1
    /\ handling' = [handling EXCEPT ![f] = "idle"]
    /\ hkey' = [hkey EXCEPT ![f] = "none"]
    /\ hstale' = [hstale EXCEPT ![f] = FALSE]
    /\ UNCHANGED <<now, advances, rpc, rkey, pending, report>>
    /\ UNCHANGED monitorFrame

\* handle_notif_line on an entry with "method" and "failed": the ALERT is
\* written, nothing is appended
HandlerNotifFailed ==
    /\ rpc # "off"
    /\ handling["notif"] = "idle"
    /\ EventsStarted < MaxEvents
    /\ observed' = [observed EXCEPT !["none"] = Append(@, now)]
    /\ alerts' = alerts + 1
    /\ UNCHANGED <<now, advances, stats, handling, hkey, hstale, rpc, rkey,
                   pending, report>>
    /\ UNCHANGED monitorFrame

\* [e for e in list if e[0] >= cutoff]
Recent(list, cutoff) == SelectSeq(list, LAMBDA e : e.ts >= cutoff)

\* the summary of the last 10 minutes and the stronger alerts
RollupReport ==
    /\ rpc = "report"
    /\ LET cutoff == now - Window
           dry_recent == Recent(stats["dry_run_events"], cutoff)
           smtp_fail_recent == Recent(stats["smtp_fail_events"], cutoff)
       IN  report' = [made |-> TRUE,
                      critical |-> Len(smtp_fail_recent) >= FailThreshold,
                      warning |-> Len(dry_recent) >= DryThreshold]
    /\ rpc' = "filter"
    /\ rkey' = 1
    /\ UNCHANGED <<now, advances, stats, handling, hkey, hstale, pending,
                   observed, alerts>>
    /\ UNCHANGED monitorFrame

\* the right-hand side of a truncating assignment: the list comprehension
\* over stats[key]
RollupFilter ==
    /\ rpc = "filter"
    /\ pending' = Recent(stats[TruncateOrder[rkey]], now - Retention)
    /\ rpc' = "store"
    /\ UNCHANGED <<now, advances, stats, handling, hkey, hstale, rkey,
                   observed, alerts, report>>
    /\ UNCHANGED monitorFrame

\* stats[key] = the filtered list: the handlers that have loaded the old
\* list keep it
RollupStore ==
    /\ rpc = "store"
    /\ LET key == TruncateOrder[rkey]
       IN  /\ stats' = [stats EXCEPT ![key] = pending]
           /\ hstale' = [f \in Followers |->
                            hstale[f] \/ (handling[f] = "loaded" /\ hkey[f] = key)]
    /\ pending' = <<>>
    /\ IF rkey < Len(TruncateOrder)
       THEN rkey' = rkey + 1 /\ rpc' = "filter"
       ELSE rkey' = 1 /\ rpc' = "sleep"
    /\ UNCHANGED <<now, advances, handling, hkey, observed, alerts, report>>
    /\ UNCHANGED monitorFrame

\* time.sleep(60) returns
RollupWake ==
    /\ rpc = "sleep"
    /\ rpc' = "report"
    /\ report' = NoReport
    /\ UNCHANGED <<now, advances, stats, handling, hkey, hstale, rkey,
                   pending, observed, alerts>>
    /\ UNCHANGED monitorFrame

(***************************************************************************)
(* State store                                                             *)
(***************************************************************************)
\* notified.json: missing, unreadable (open() raises, as for a file without
\* read permission), not JSON, a JSON object, a JSON list of key lists (the
\* legacy format), or any other JSON value
FileOf(kind, d, l) == [kind |-> kind, dict |-> d, list |-> l]

\* Mutant of LoadNotified: the keys of a legacy state file are given the
\* status 'available'.
LoadNotifiedLegacyAsAvailable(file) ==
    IF file.kind = "dict" THEN file.dict
    ELSE IF file.kind = "list"
        THEN [k \in {KeyToStr(item) : item \in file.list} |-> "available"]
    ELSE EmptyDict

\* Mutant of LoadNotified: a file that cannot be used counts as a record of
\* every slot.
LoadNotifiedSuppressing(file) ==
    IF file.kind = "dict" THEN file.dict
    ELSE [k \in AllKeyStrs |-> Placeholder]

\* _load_notified
LoadNotified(file) ==
    IF file.kind = "dict" THEN file.dict
    ELSE IF file.kind = "list"
        THEN [k \in {KeyToStr(item) : item \in file.list} |-> Placeholder]
    ELSE EmptyDict

\* _load_notified when open() or the read of a readable file raises (too
\* many open files, an I/O error): except Exception returns {}
ReadNotified(file, read_ok) ==
    IF read_ok THEN LoadNotified(file) ELSE EmptyDict

\* _save_notified: the file after json.dump(d)
SaveNotified(d) == FileOf("dict", d, {})

\* how _save_notified can end: the file is written; open(path, 'w') raises;
\* open(path, 'w') has emptied the file and json.dump or the close raises
WriteOutcomes == {"ok", "open_failed", "truncated"}

\* _save_notified: notified.json after the call.  An exception is swallowed
\* (except Exception: pass); a file emptied by open() and not written to
\* its end is not JSON.
SaveOutcome(file, d, write) ==
    IF write = "ok" THEN SaveNotified(d)
    ELSE IF write = "open_failed" THEN file
    ELSE FileOf("invalid", EmptyDict, {})

(***************************************************************************)
(* Diff: the loop body of notify_once_for_starts / notify_once_with_page   *)
(***************************************************************************)
\* Mutant of Notifiable: only a slot without a recorded status is new.
NotifiableOnlyNew(c, prev_state) ==
    c.status # "full" /\ Get(prev_state, KeyStrOf(c)) = None

\* Mutant of Notifiable: a record is new only when the previous status was
\* 'full' or absent (a status change between two non-full statuses is missed).
NotifiableAfterFullOnly(c, prev_state) ==
    LET current_status == c.status
        prev_status == Get(prev_state, KeyStrOf(c))
    IN  current_status # "full" /\ prev_status \in {"full", None}

\* the test that appends a record to produced
Notifiable(c, prev_state) ==
    LET current_status == c.status
        prev_status == Get(prev_state, KeyStrOf(c))
    IN  current_status # "full" /\ prev_status # current_status

RECURSIVE ProcessItemsUpdateOnNotify(_, _, _)
\* Mutant of ProcessItems: the recorded status is updated only for the
\* records that are notified.
ProcessItemsUpdateOnNotify(items, prev_state, acc) ==
    IF items = <<>> THEN acc
    ELSE LET c == Head(items)
             hit == c.status # "full"
                        /\ Get(prev_state, KeyStrOf(c)) # c.status
             step == [produced |->
                          IF hit THEN Append(acc.produced, c)
                          ELSE acc.produced,
                      new_notified |->
                          IF hit
                          THEN Put(acc.new_notified, KeyStrOf(c), c.status)
                          ELSE acc.new_notified]
         IN  ProcessItemsUpdateOnNotify(Tail(items), prev_state, step)

RECURSIVE ProcessItems(_, _, _)
\* for c in items: ... ; acc is [produced, new_notified]
ProcessItems(items, prev_state, acc) ==
    IF items = <<>> THEN acc
    ELSE LET c == Head(items)
             step == [produced |->
                          IF Notifiable(c, prev_state)
                          THEN Append(acc.produced, c) ELSE acc.produced,
                      new_notified |->
                          Put(acc.new_notified, KeyStrOf(c), c.status)]
         IN  ProcessItems(Tail(items), prev_state, step)

(***************************************************************************)
(* Dispatcher: send_email, send_line, _append_history                      *)
(***************************************************************************)
\* os.environ as send_email reads it: TRUE for a variable that is set and
\* not empty; SMTP_PORT is the text of the variable, "" when unset
SmtpPorts == {"", "465", "587", "abc"}

\* stands for the ValueError of int(text)
NotANumber == -1

\* int(text)
IntOf(text) ==
    IF text = "465" THEN 465 ELSE IF text = "587" THEN 587 ELSE NotANumber

\* smtp_port = int(SMTP_PORT) if SMTP_PORT else None: the conversion raises
PortRaises(env) == env.SMTP_PORT # "" /\ IntOf(env.SMTP_PORT) = NotANumber

\* smtp_port, with 0 for None
SmtpPort(env) == IF env.SMTP_PORT = "" THEN 0 ELSE IntOf(env.SMTP_PORT)

Envs ==
    [SENDGRID_API_KEY : BOOLEAN, MAILGUN_API_KEY : BOOLEAN,
     MAILGUN_DOMAIN : BOOLEAN, SMTP_HOST : BOOLEAN, SMTP_PORT : SmtpPorts]

\* if sendgrid_key / if mailgun_key and mailgun_domain / if smtp_host and smtp_port
Configured(env, provider) ==
    IF provider = "sendgrid" THEN env.SENDGRID_API_KEY
    ELSE IF provider = "mailgun" THEN env.MAILGUN_API_KEY /\ env.MAILGUN_DOMAIN
    ELSE env.SMTP_HOST /\ ~PortRaises(env) /\ SmtpPort(env) # 0

Providers == <<"sendgrid", "mailgun", "smtp">>

\* What the network does with a request to a provider: "ok" (status 200/202,
\* or the SMTP session completes), "bad" (another HTTP status), "exc" (the
\* call raises).  SMTP has no "bad": smtplib raises on every failure.
HttpOutcomes == {"ok", "bad", "exc"}
SmtpOutcomes == {"ok", "exc"}

Nets == [sendgrid : HttpOutcomes, mailgun : HttpOutcomes, smtp : SmtpOutcomes]

\* the pairs (env, net); the outcome of an unconfigured provider is fixed
EnvNets ==
    {en \in Envs \X Nets :
        \A i \in 1..3 :
            ~Configured(en[1], Providers[i]) => en[2][Providers[i]] = "ok"}

\* an entry of notifications.jsonl written by send_email (ts, subject and
\* detail omitted)
EmailEntry(method, recips, status) ==
    [method |-> method, recipients |-> recips, tokens |-> <<>>,
     message |-> None, status |-> status]

Attempt(provider, outcome) == [provider |-> provider, outcome |-> outcome]

\* what a call returns and does: its return value, the entries it passes to
\* _append_history, and the provider requests it made
Run(result, entries, attempts) ==
    [result |-> result, entries |-> entries, attempts |-> attempts,
     raised |-> FALSE]

\* a call that raises after the given provider requests, none of which wrote
\* an entry
Raised(attempts) ==
    [result |-> FALSE, entries |-> <<>>, attempts |-> attempts,
     raised |-> TRUE]

\* Mutant of SendSmtp: a failed SMTP session falls through to the dry-run.
SendSmtpFailureAsDryRun(subject, recips, env, net, attempts) ==
    IF PortRaises(env) THEN Raised(attempts)
    ELSE IF Configured(env, "smtp") /\ net.smtp = "ok"
    THEN Run(TRUE, <<EmailEntry("smtp", recips, "success")>>,
             Append(attempts, Attempt("smtp", "ok")))
    ELSE Run(FALSE, <<EmailEntry("dry-run", recips, "dry-run")>>,
             IF Configured(env, "smtp")
             THEN Append(attempts, Attempt("smtp", "exc")) ELSE attempts)

\* send_email, 3) SMTP and 4) dry-run
SendSmtp(subject, recips, env, net, attempts) ==
    IF PortRaises(env) THEN Raised(attempts)
    ELSE IF Configured(env, "smtp")
    THEN IF net.smtp = "ok"
         THEN Run(TRUE, <<EmailEntry("smtp", recips, "success")>>,
                  Append(attempts, Attempt("smtp", "ok")))
         ELSE Run(FALSE, <<EmailEntry("smtp", recips, "failed")>>,
                  Append(attempts, Attempt("smtp", "exc")))
    ELSE Run(FALSE, <<EmailEntry("dry-run", recips, "dry-run")>>,
             attempts)

\* send_email, 2) Mailgun
SendMailgun(subject, recips, env, net, attempts) ==
    IF env.MAILGUN_API_KEY /\ env.MAILGUN_DOMAIN
    THEN IF net.mailgun = "ok"
         THEN Run(TRUE, <<EmailEntry("mailgun", recips, "success")>>,
                  Append(attempts, Attempt("mailgun", "ok")))
         ELSE IF net.mailgun = "bad"
         THEN Run(FALSE, <<EmailEntry("mailgun", recips, "failed")>>,
                  Append(attempts, Attempt("mailgun", "bad")))
         ELSE SendSmtp(subject, recips, env, net,
                       Append(attempts, Attempt("mailgun", "exc")))
    ELSE SendSmtp(subject, recips, env, net, attempts)

\* Mutant of SendEmail: a SendGrid success does not return; the next
\* providers are tried as well.
SendEmailNoShortCircuit(subject, recips, env, net) ==
    IF env.SENDGRID_API_KEY /\ net.sendgrid = "ok"
    THEN LET rest == SendMailgun(subject, recips, env, net,
                                 <<Attempt("sendgrid", "ok")>>)
         IN  Run(TRUE,
                 <<EmailEntry("sendgrid", recips, "success")>>
                     \o rest.entries,
                 rest.attempts)
    ELSE IF env.SENDGRID_API_KEY /\ net.sendgrid = "bad"
    THEN Run(FALSE, <<EmailEntry("sendgrid", recips, "failed")>>,
             <<Attempt("sendgrid", "bad")>>)
    ELSE SendMailgun(subject, recips, env, net,
                     IF env.SENDGRID_API_KEY
                     THEN <<Attempt("sendgrid", "exc")>> ELSE <<>>)

\* send_email, from 1) SendGrid on
SendEmail(subject, recips, env, net) ==
    IF env.SENDGRID_API_KEY
    THEN IF net.sendgrid = "ok"
         THEN Run(TRUE, <<EmailEntry("sendgrid", recips, "success")>>,
                  <<Attempt("sendgrid", "ok")>>)
         ELSE IF net.sendgrid = "bad"
         THEN Run(FALSE, <<EmailEntry("sendgrid", recips, "failed")>>,
                  <<Attempt("sendgrid", "bad")>>)
         ELSE SendMailgun(subject, recips, env, net,
                          <<Attempt("sendgrid", "exc")>>)
    ELSE SendMailgun(subject, recips, env, net, <<>>)

\* _append_history, once per entry
AppendHistory(log, entries) == log \o entries

\* LINE Notify tokens, as sequences of characters
Tokens ==
    { <<"l", "i", "n", "e", "-", "t", "o", "k", "-", "A", "1">>,
      <<"z", "9">> }

TokenPrefixLen == 8

\* t[:8]
TokenPrefix(t) ==
    SubSeq(t, 1, IF Len(t) < TokenPrefixLen THEN Len(t) ELSE TokenPrefixLen)

\* an entry of notifications.jsonl written by send_line
LineEntry(t, message, status) ==
    [method |-> "line", recipients |-> <<>>, tokens |-> <<TokenPrefix(t)>>,
     message |-> message, status |-> status]

RECURSIVE LineLoop(_, _, _, _, _)
\* for t in tokens: ...; acc is the Run so far, i the index of the next token
LineLoop(message, tokens, net, i, acc) ==
    IF i > Len(tokens) THEN acc
    ELSE LET t == tokens[i]
             ok == net[i] = "ok"
             next == Run(acc.result \/ ok,
                         Append(acc.entries,
                                LineEntry(t, message,
                                          IF ok THEN "success" ELSE "failed")),
                         Append(acc.attempts, Attempt(t, net[i])))
         IN  LineLoop(message, tokens, net, i + 1, next)

\* send_line; httpx is FALSE when the import of httpx fails
SendLine(message, tokens, httpx, net) ==
    IF tokens = <<>> THEN Run(FALSE, <<>>, <<>>)
    ELSE IF ~httpx THEN Run(FALSE, <<>>, <<>>)
    ELSE LineLoop(message, tokens, net, 1, Run(FALSE, <<>>, <<>>))

(***************************************************************************)
(* The notification cycle: notify_once_for_starts / notify_once_with_page  *)
(***************************************************************************)
\* what _read_recipients() can return
RecipientLists == {<<>>, <<"a@example.com">>}

\* subj = f"... ({len(produced)}件)"
Subject(records) == <<"slots found", Len(records)>>

\* body: one line per notifiable record
Body(records) ==
    [i \in 1..Len(records) |->
        <<records[i].date, records[i].time, records[i].status,
          records[i].service_cd>>]

\* no provider of send_email is configured
NoProvider(env) == \A i \in 1..3 : ~Configured(env, Providers[i])

\* Mutant of EmailCalls: the message carries the first notifiable record
\* only.
EmailCallsFirstRecord(subject, body, recips, before) ==
    {[subject |-> subject, body |-> SubSeq(body, 1, 1), recipients |-> recips,
      no_provider |-> NoProvider(en[1]), before |-> before,
      run |-> SendEmail(subject, recips, en[1], en[2])] : en \in EnvNets}

\* a call send_email(subj, body, recipients) made by the cycle, under every
\* environment and every behaviour of the network
EmailCalls(subject, body, recips, before) ==
    {[subject |-> subject, body |-> body, recipients |-> recips,
      no_provider |-> NoProvider(en[1]), before |-> before,
      run |-> SendEmail(subject, recips, en[1], en[2])] : en \in EnvNets}

\* the keys of the records of a cycle's fetches
RECURSIVE Observations(_)
Observations(results) ==
    IF results = <<>> THEN <<>>
    ELSE Head(results).items \o Observations(Tail(results))

\* the keys observed in a cycle, every time as 'full'
OnlyFull(results) ==
    LET obs == Observations(results)
    IN  {k \in {KeyStrOf(obs[i]) : i \in 1..Len(obs)} :
            \A i \in 1..Len(obs) :
                KeyStrOf(obs[i]) = k => obs[i].status = "full"}

NoPlan == <<>>

\* recipients = _read_recipients(); prev = _load_notified();
\* new_notified = dict(prev); produced = []
CycleBeginFrom(read_ok) ==
    /\ pc \in {"idle", "done", "raised"}
    /\ Len(history) < MaxHistory
    /\ recipients' \in RecipientLists
    /\ prev' = ReadNotified(notifiedFile, read_ok)
    /\ new_notified' = ReadNotified(notifiedFile, read_ok)
    /\ readOk' = read_ok
    /\ written' = "none"
    /\ produced' = <<>>
    /\ fetched' = <<>>
    /\ emailCalls' = <<>>
    /\ lastCycle' = [completed |-> pc = "done",
                     only_full |-> IF pc = "done" THEN OnlyFull(fetched)
                                   ELSE {}]
    /\ pc' = "fetching"
    /\ UNCHANGED <<notifiedFile, history, plan, lastCall>>
    /\ UNCHANGED pollerVars
    /\ UNCHANGED sideVars

\* Mutant of CycleBegin: the updated state starts empty, not as a copy of
\* the loaded state.
CycleBeginFreshState ==
    /\ pc \in {"idle", "done", "raised"}
    /\ Len(history) < MaxHistory
    /\ recipients' \in RecipientLists
    /\ prev' = LoadNotified(notifiedFile)
    /\ new_notified' = EmptyDict
    /\ readOk' = TRUE
    /\ written' = "none"
    /\ produced' = <<>>
    /\ fetched' = <<>>
    /\ emailCalls' = <<>>
    /\ lastCycle' = [completed |-> pc = "done",
                     only_full |-> IF pc = "done" THEN OnlyFull(fetched)
                                   ELSE {}]
    /\ pc' = "fetching"
    /\ UNCHANGED <<notifiedFile, history, plan, lastCall>>
    /\ UNCHANGED pollerVars
    /\ UNCHANGED sideVars

\* the start of a cycle whose state file can be read
CycleBegin == CycleBeginFrom(TRUE)

\* the start of a cycle whose read of the state file may fail
CycleBeginFaults == \E read_ok \in BOOLEAN : CycleBeginFrom(read_ok)

\* Mutant of CycleFetch: after a fetch that raised, the records of the later
\* start dates are not processed.
CycleFetchStopAtFailure ==
    /\ pc = "fetching"
    /\ Len(fetched) < Len(Starts)
    /\ \E res \in (IF plan = NoPlan THEN FetchResults
                   ELSE {plan[Len(fetched) + 1]}) :
        /\ fetched' = Append(fetched, res)
        /\ IF res.ok /\ \A i \in 1..Len(fetched) : fetched[i].ok
           THEN LET out == ProcessItems(res.items, prev,
                               [produced |-> produced,
                                new_notified |-> new_notified])
                IN  /\ produced' = out.produced
                    /\ new_notified' = out.new_notified
           ELSE UNCHANGED <<produced, new_notified>>
    /\ UNCHANGED <<notifiedFile, history, pc, recipients, prev, emailCalls,
                   lastCycle, plan, lastCall, readOk, written>>
    /\ UNCHANGED pollerVars
    /\ UNCHANGED sideVars

\* one iteration of "for s in starts": the fetch, which may raise (continue),
\* and the loop over its items
CycleFetch ==
    /\ pc = "fetching"
    /\ Len(fetched) < Len(Starts)
    /\ \E res \in (IF plan = NoPlan THEN FetchResults
                   ELSE {plan[Len(fetched) + 1]}) :
        /\ fetched' = Append(fetched, res)
        /\ IF res.ok
           THEN LET out == ProcessItems(res.items, prev,
                               [produced |-> produced,
                                new_notified |-> new_notified])
                IN  /\ produced' = out.produced
                    /\ new_notified' = out.new_notified
           ELSE UNCHANGED <<produced, new_notified>>
    /\ UNCHANGED <<notifiedFile, history, pc, recipients, prev, emailCalls,
                   lastCycle, plan, lastCall, readOk, written>>
    /\ UNCHANGED pollerVars
    /\ UNCHANGED sideVars

\* Mutant of CycleFinish: the state is persisted only when nothing had to be
\* sent or the dispatch succeeded.
CycleFinishSaveOnSuccess ==
    /\ pc = "fetching"
    /\ Len(fetched) = Len(Starts)
    /\ IF produced # <<>> /\ recipients # <<>>
       THEN \E call \in EmailCalls(Subject(produced), Body(produced),
                                   recipients, history) :
                /\ emailCalls' = Append(emailCalls, call)
                /\ history' = AppendHistory(history, call.run.entries)
                /\ notifiedFile' = IF call.run.result
                                   THEN SaveNotified(new_notified)
                                   ELSE notifiedFile
                /\ written' = IF call.run.result THEN "ok" ELSE "none"
                /\ pc' = IF call.run.raised THEN "raised" ELSE "done"
       ELSE /\ UNCHANGED <<emailCalls, history>>
            /\ notifiedFile' = SaveNotified(new_notified)
            /\ written' = "ok"
            /\ pc' = "done"
    /\ UNCHANGED <<recipients, prev, new_notified, produced, fetched,
                   lastCycle, plan, lastCall, readOk>>
    /\ UNCHANGED pollerVars
    /\ UNCHANGED sideVars

\* after the loop: if produced and recipients: send_email(...);
\* _save_notified(new_notified); return.  An exception of send_email is not
\* caught here: the cycle raises before it saves.
CycleFinishWith(write) ==
    /\ pc = "fetching"
    /\ Len(fetched) = Len(Starts)
    /\ IF produced # <<>> /\ recipients # <<>>
       THEN \E call \in EmailCalls(Subject(produced), Body(produced),
                                   recipients, history) :
                /\ emailCalls' = Append(emailCalls, call)
                /\ history' = AppendHistory(history, call.run.entries)
                /\ IF call.run.raised
                   THEN pc' = "raised" /\ UNCHANGED <<notifiedFile, written>>
                   ELSE /\ pc' = "done"
                        /\ notifiedFile' =
                               SaveOutcome(notifiedFile, new_notified, write)
                        /\ written' = write
       ELSE /\ UNCHANGED <<emailCalls, history>>
            /\ notifiedFile' = SaveOutcome(notifiedFile, new_notified, write)
            /\ written' = write
            /\ pc' = "done"
    /\ UNCHANGED <<recipients, prev, new_notified, produced, fetched,
                   lastCycle, plan, lastCall, readOk>>
    /\ UNCHANGED pollerVars
    /\ UNCHANGED sideVars

\* the end of a cycle whose state file can be written
CycleFinish == CycleFinishWith("ok")

\* the end of a cycle whose write of the state file may fail
CycleFinishFaults == \E write \in WriteOutcomes : CycleFinishWith(write)

\* the dict a cycle returns
CycleResult ==
    [new_count |-> Len(produced),
     notified |-> [i \in 1..Len(produced) |-> SlotKey(produced[i])],
     recipients |-> recipients]

(***************************************************************************)
(* Direct calls of the dispatcher                                          *)
(***************************************************************************)
DefaultEnv ==
    [SENDGRID_API_KEY |-> FALSE, MAILGUN_API_KEY |-> FALSE,
     MAILGUN_DOMAIN |-> FALSE, SMTP_HOST |-> FALSE, SMTP_PORT |-> ""]

DefaultNet == [sendgrid |-> "ok", mailgun |-> "ok", smtp |-> "ok"]

CallOf(fn, env, net, recips, tokens, httpx, lineNet, before, run) ==
    [fn |-> fn, env |-> env, net |-> net, recipients |-> recips,
     tokens |-> tokens, httpx |-> httpx, lineNet |-> lineNet,
     before |-> before, run |-> run]

NoCall ==
    CallOf("none", DefaultEnv, DefaultNet, <<>>, <<>>, TRUE, <<>>, <<>>,
           Run(FALSE, <<>>, <<>>))

\* the longest token list of a send_line call
MaxTokens == 2

TokenLists == UNION {[1..n -> Tokens] : n \in 0..MaxTokens}

\* send_email(subject, body, recipients)
CallSendEmail ==
    /\ Len(history) < MaxHistory
    /\ \E recips \in RecipientLists, en \in EnvNets :
        LET run == SendEmail(Subject(<<>>), recips, en[1], en[2])
        IN  /\ history' = AppendHistory(history, run.entries)
            /\ lastCall' = CallOf("send_email", en[1], en[2], recips, <<>>,
                                  TRUE, <<>>, history, run)
    /\ UNCHANGED <<notifiedFile, pc, recipients, prev, new_notified, produced,
                   fetched, emailCalls, lastCycle, plan, readOk, written>>
    /\ UNCHANGED pollerVars
    /\ UNCHANGED sideVars

\* send_line(message, tokens)
CallSendLine ==
    /\ Len(history) < MaxHistory
    /\ \E tokens \in TokenLists, httpx \in BOOLEAN :
        \E lineNet \in (IF httpx THEN [1..Len(tokens) -> HttpOutcomes]
                        ELSE {[i \in 1..Len(tokens) |-> "ok"]}) :
            LET run == SendLine("msg", tokens, httpx, lineNet)
            IN  /\ history' = AppendHistory(history, run.entries)
                /\ lastCall' = CallOf("send_line", DefaultEnv, DefaultNet,
                                      <<>>, tokens, httpx, lineNet, history,
                                      run)
    /\ UNCHANGED <<notifiedFile, pc, recipients, prev, new_notified, produced,
                   fetched, emailCalls, lastCycle, plan, readOk, written>>
    /\ UNCHANGED pollerVars
    /\ UNCHANGED sideVars

(***************************************************************************)
(* Two cycles in one event loop: _background_loop and api_notify_now both  *)
(* await notify_once_for_starts, which suspends at every fetch             *)
(***************************************************************************)
\* the cycles each of the two runs
MaxRounds == 1

TaskIds == {"background", "notify_now"}

\* the locals of a cycle that is not running
IdleTask(rounds) ==
    [pc |-> "idle", recipients |-> <<>>, prev |-> EmptyDict,
     new_notified |-> EmptyDict, produced |-> <<>>, nfetched |-> 0,
     seen |-> {}, sent |-> FALSE, rounds |-> rounds]

\* neither cycle exists
TasksOff ==
    /\ tasks = [t \in TaskIds |-> IdleTask(0)]
    /\ world = [i \in 1..NumSlots |-> "full"]
    /\ sees = [t \in TaskIds |-> {}]

\* recipients = _read_recipients(); prev = _load_notified();
\* new_notified = dict(prev); produced = []
TaskBegin(t) ==
    /\ tasks[t].pc \in {"idle", "done", "raised"}
    /\ tasks[t].rounds < MaxRounds
    /\ \E recips \in RecipientLists :
        tasks' = [tasks EXCEPT ![t] =
                     [pc |-> "fetching", recipients |-> recips,
                      prev |-> LoadNotified(notifiedFile),
                      new_notified |-> LoadNotified(notifiedFile),
                      produced |-> <<>>, nfetched |-> 0, seen |-> {},
                      sent |-> FALSE, rounds |-> @.rounds + 1]]
    /\ UNCHANGED <<notifiedFile, history, world, sees>>
    /\ UNCHANGED taskFrame

\* what the fetch of the i-th start date returns to cycle t: the slot of
\* that week with its status, when the start dates of t show it
TaskItems(t, i) ==
    IF i \in sees[t] THEN <<SlotRecord(SlotOrder[i], world[i])>> ELSE <<>>

\* the cycle resumes after "await fetch_parsed_impl(s)": the fetch raised
\* (continue) or its items are compared with prev
TaskFetch(t) ==
    /\ tasks[t].pc = "fetching"
    /\ tasks[t].nfetched < Len(Starts)
    /\ \E ok \in BOOLEAN :
        LET i == tasks[t].nfetched + 1
            out == ProcessItems(IF ok THEN TaskItems(t, i) ELSE <<>>,
                                tasks[t].prev,
                                [produced |-> tasks[t].produced,
                                 new_notified |-> tasks[t].new_notified])
        IN  tasks' = [tasks EXCEPT ![t].nfetched = i,
                                   ![t].produced = out.produced,
                                   ![t].new_notified = out.new_notified,
                                   ![t].seen = IF ok /\ i \in sees[t]
                                               THEN @ \cup {i} ELSE @]
    /\ UNCHANGED <<notifiedFile, history, world, sees>>
    /\ UNCHANGED taskFrame

\* after the loop, without another await: if produced and recipients:
\* send_email(...); _save_notified(new_notified); return
TaskFinish(t) ==
    /\ tasks[t].pc = "fetching"
    /\ tasks[t].nfetched = Len(Starts)
    /\ IF tasks[t].produced # <<>> /\ tasks[t].recipients # <<>>
       THEN \E call \in EmailCalls(Subject(tasks[t].produced),
                                   Body(tasks[t].produced),
                                   tasks[t].recipients, history) :
                /\ history' = AppendHistory(history, call.run.entries)
                /\ IF call.run.raised
                   THEN /\ tasks' = [tasks EXCEPT ![t].pc = "raised",
                                                  ![t].sent = TRUE]
                        /\ UNCHANGED notifiedFile
                   ELSE /\ tasks' = [tasks EXCEPT ![t].pc = "done",
                                                  ![t].sent = TRUE]
                        /\ notifiedFile' =
                               SaveNotified(tasks[t].new_notified)
       ELSE /\ tasks' = [tasks EXCEPT ![t].pc = "done"]
            /\ notifiedFile' = SaveNotified(tasks[t].new_notified)
            /\ UNCHANGED history
    /\ UNCHANGED <<world, sees>>
    /\ UNCHANGED taskFrame

(***************************************************************************)
(* Poll orchestrator: run_poller of scripts/poller.py                      *)
(***************************************************************************)
\* backoff = 1 / max_backoff = 300
BackoffSeed == 1
MaxBackoff == 300

\* Session acquisition can fail only while fewer than MaxWaits backoff waits
\* were made since the last successful acquisition.
MaxWaits == 10

\* the sessions in a row ended by a failed tick that are counted
MaxTickFailures == 3

\* the longest inter-tick sleep, max(0, interval - elapsed), in half
\* seconds (elapsed is a float: the sleep need not be whole seconds)
MaxSleep == 3

\* the sleep increment of one second, min(1, ...), in half seconds
SleepChunk == 2

Min(a, b) == IF a < b THEN a ELSE b

Max(a, b) == IF a > b THEN a ELSE b

\* run_poller is not running
PollerOff ==
    /\ STOP = FALSE
    /\ ppc = "off"
    /\ backoff = BackoffSeed
    /\ sessionOpen = FALSE
    /\ slept = 0
    /\ to_sleep = 0
    /\ lastTick = "none"
    /\ waits = 0
    /\ failStreak = 0
    /\ stopSeen = FALSE
    /\ stopAt = "none"
    /\ logOk = TRUE
    /\ tickFailures = 0

RECURSIVE ProcessFetches(_, _, _)
\* for s in starts: a fetch that raises is skipped (continue)
ProcessFetches(results, prev_state, acc) ==
    IF results = <<>> THEN acc
    ELSE ProcessFetches(Tail(results), prev_state,
                        IF Head(results).ok
                        THEN ProcessItems(Head(results).items, prev_state, acc)
                        ELSE acc)

\* notified.json after notify_once_with_page returned, for a cycle that had
\* the given fetch results and nobody to notify
FileAfterCycle(file, results) ==
    SaveNotified(ProcessFetches(results, LoadNotified(file),
                                [produced |-> <<>>,
                                 new_notified |-> LoadNotified(file)])
                     .new_notified)

\* what run_poller leaves alone of the cycle's variables: a tick changes
\* notified.json only (recipients.txt is empty, nothing is dispatched)
tickFrame == <<history, pc, recipients, prev, new_notified, produced, fetched,
               emailCalls, lastCycle, plan, lastCall, readOk, written>>

\* the signal handler: STOP = True
StopRequest ==
    /\ ppc \notin {"off", "stopped", "crashed"}
    /\ ~STOP
    /\ STOP' = TRUE
    /\ stopAt' = ppc
    /\ UNCHANGED <<ppc, backoff, sessionOpen, slept, to_sleep, lastTick, waits,
                   failStreak, stopSeen, logOk,
                   tickFailures>>
    /\ UNCHANGED cycleVars
    /\ UNCHANGED sideVars

\* while not STOP (the outer loop)
PollOuterCheck ==
    /\ ppc = "outer"
    /\ ppc' = IF STOP THEN "stopped" ELSE "acquiring"
    /\ stopSeen' = (stopSeen \/ STOP)
    /\ UNCHANGED <<STOP, backoff, sessionOpen, slept, to_sleep, lastTick, waits,
                   failStreak, stopAt, logOk,
                   tickFailures>>
    /\ UNCHANGED cycleVars
    /\ UNCHANGED sideVars

\* Mutant of PollAcquire: a successful acquisition does not reset the delay.
PollAcquireNoReset ==
    /\ ppc = "acquiring"
    /\ \E acquired \in BOOLEAN, goto_ok \in BOOLEAN :
        IF acquired
        THEN /\ sessionOpen' = TRUE
             /\ waits' = 0
             /\ failStreak' = 0
             /\ lastTick' = "none"
             /\ ppc' = "inner"
             /\ UNCHANGED <<backoff, tickFailures>>
        ELSE /\ waits < MaxWaits
             /\ failStreak' = failStreak + 1
             /\ tickFailures' = 0
             /\ ppc' = IF logOk THEN "after" ELSE "crashed"
             /\ UNCHANGED <<sessionOpen, backoff, waits, lastTick>>
    /\ UNCHANGED <<STOP, slept, to_sleep, stopSeen, stopAt, logOk>>
    /\ UNCHANGED cycleVars
    /\ UNCHANGED sideVars

\* async_playwright(), chromium.launch, new_page, page.goto (whose failure is
\* ignored), backoff = 1; when one of the first three raises, the outer
\* handler writes notification.log, and the failure of that write leaves
\* run_poller
PollAcquire ==
    /\ ppc = "acquiring"
    /\ \E acquired \in BOOLEAN, goto_ok \in BOOLEAN :
        IF acquired
        THEN /\ sessionOpen' = TRUE
             /\ backoff' = BackoffSeed
             /\ waits' = 0
             /\ failStreak' = 0
             /\ lastTick' = "none"
             /\ ppc' = "inner"
             /\ UNCHANGED tickFailures
        ELSE /\ waits < MaxWaits
             /\ failStreak' = failStreak + 1
             /\ tickFailures' = 0
             /\ ppc' = IF logOk THEN "after" ELSE "crashed"
             /\ UNCHANGED <<sessionOpen, backoff, waits, lastTick>>
    /\ UNCHANGED <<STOP, slept, to_sleep, stopSeen, stopAt, logOk,
                   tickFailures>>
    /\ UNCHANGED cycleVars
    /\ UNCHANGED sideVars

\* Mutant of PollInnerCheck: the tick loop does not look at STOP.
PollInnerCheckIgnoreStop ==
    /\ ppc = "inner"
    /\ ppc' = "tick"
    /\ UNCHANGED <<STOP, backoff, sessionOpen, slept, to_sleep, lastTick, waits,
                   failStreak, stopSeen, stopAt, logOk,
                   tickFailures>>
    /\ UNCHANGED cycleVars
    /\ UNCHANGED sideVars

\* while not STOP (the tick loop)
PollInnerCheck ==
    /\ ppc = "inner"
    /\ ppc' = IF STOP THEN "closing" ELSE "tick"
    /\ stopSeen' = (stopSeen \/ STOP)
    /\ UNCHANGED <<STOP, backoff, sessionOpen, slept, to_sleep, lastTick, waits,
                   failStreak, stopAt, logOk,
                   tickFailures>>
    /\ UNCHANGED cycleVars
    /\ UNCHANGED sideVars

\* The body of a tick up to the end of the call of notify_once_with_page
\* (lines 147-159): load_env_files, dump_env_status, the cycle.  The cycle
\* returns after it saved its state, also when a fetch failed (the failure
\* is logged and the start date skipped); it raises when the log write of a
\* failed fetch fails, or for another reason (load_env_files,
\* _read_recipients) before its state is saved.
PollTick ==
    /\ ppc = "tick"
    /\ \E results \in [1..Len(Starts) -> FetchResults], raises \in BOOLEAN :
        LET fetch_failed == \E i \in 1..Len(results) : ~results[i].ok
            cycle_raises == raises \/ (fetch_failed /\ ~logOk)
        IN  /\ lastTick' = IF cycle_raises THEN "raised"
                           ELSE IF fetch_failed THEN "fetch_failed"
                           ELSE "returned"
            /\ notifiedFile' = IF cycle_raises THEN notifiedFile
                               ELSE FileAfterCycle(notifiedFile, results)
    /\ ppc' = "ticked"
    /\ UNCHANGED <<STOP, backoff, sessionOpen, slept, to_sleep, waits,
                   failStreak, stopSeen, stopAt, logOk,
                   tickFailures>>
    /\ UNCHANGED tickFrame
    /\ UNCHANGED sideVars

\* The rest of a tick (lines 160-171).  After the cycle returned: the "poll
\* result" line is written to notification.log, then the sleep is computed;
\* int() of a malformed POLL_INTERVAL raises outside the try block of the
\* tick, which leaves the session block without the two closes (the
\* playwright context ends the session) for the outer handler.  After an
\* exception of the cycle or of the log write: the handler writes
\* notification.log and leaves the tick loop (break).  When notification.log
\* cannot be written, the write of the tick's handler raises, the write of
\* the outer handler raises too, and the exception leaves run_poller.
PollTickEnd ==
    /\ ppc = "ticked"
    /\ \E interval_ok \in BOOLEAN, interval \in 0..MaxSleep,
          elapsed \in 0..MaxSleep :
        IF ~logOk
        THEN /\ ppc' = "crashed"
             /\ sessionOpen' = FALSE
             /\ UNCHANGED <<slept, to_sleep, tickFailures>>
        ELSE IF lastTick = "raised"
        THEN /\ ppc' = "closing"
             /\ tickFailures' = Min(MaxTickFailures, tickFailures + 1)
             /\ UNCHANGED <<sessionOpen, slept, to_sleep>>
        ELSE IF interval_ok
        THEN /\ ppc' = "sleep_check"
             /\ slept' = 0
             /\ to_sleep' = Max(0, interval - elapsed)
             /\ UNCHANGED <<sessionOpen, tickFailures>>
        ELSE /\ ppc' = "after"
             /\ sessionOpen' = FALSE
             /\ UNCHANGED <<slept, to_sleep, tickFailures>>
    /\ UNCHANGED <<STOP, backoff, lastTick, waits, failStreak, stopSeen,
                   stopAt, logOk>>
    /\ UNCHANGED cycleVars
    /\ UNCHANGED sideVars

\* Mutant of PollSleepCheck: the sleep loop does not look at STOP.
PollSleepCheckIgnoreStop ==
    /\ ppc = "sleep_check"
    /\ ppc' = IF slept < to_sleep THEN "in_sleep" ELSE "inner"
    /\ stopSeen' = stopSeen
    /\ UNCHANGED <<STOP, backoff, sessionOpen, slept, to_sleep, lastTick, waits,
                   failStreak, stopAt, logOk,
                   tickFailures>>
    /\ UNCHANGED cycleVars
    /\ UNCHANGED sideVars

\* while slept < to_sleep and not STOP
PollSleepCheck ==
    /\ ppc = "sleep_check"
    /\ ppc' = IF slept < to_sleep /\ ~STOP THEN "in_sleep" ELSE "inner"
    /\ stopSeen' = (stopSeen \/ (slept < to_sleep /\ STOP))
    /\ UNCHANGED <<STOP, backoff, sessionOpen, slept, to_sleep, lastTick, waits,
                   failStreak, stopAt, logOk,
                   tickFailures>>
    /\ UNCHANGED cycleVars
    /\ UNCHANGED sideVars

\* await asyncio.sleep(min(1, to_sleep - slept)); slept += min(1, ...)
PollSleepChunk ==
    /\ ppc = "in_sleep"
    /\ slept' = slept + Min(SleepChunk, to_sleep - slept)
    /\ ppc' = "sleep_check"
    /\ UNCHANGED <<STOP, backoff, sessionOpen, to_sleep, lastTick, waits,
                   failStreak, stopSeen, stopAt, logOk,
                   tickFailures>>
    /\ UNCHANGED cycleVars
    /\ UNCHANGED sideVars

\* page.close() and browser.close(), each in its own try / except: pass;
\* leaving the playwright context ends the session
PollClose ==
    /\ ppc = "closing"
    /\ \E page_close_ok \in BOOLEAN, browser_close_ok \in BOOLEAN :
        /\ sessionOpen' = FALSE
        /\ ppc' = "after"
    /\ UNCHANGED <<STOP, backoff, slept, to_sleep, lastTick, waits, failStreak,
                   stopSeen, stopAt, logOk,
                   tickFailures>>
    /\ UNCHANGED cycleVars
    /\ UNCHANGED sideVars

\* if STOP: break; otherwise await asyncio.sleep(backoff) starts
PollAfter ==
    /\ ppc = "after"
    /\ ppc' = IF STOP THEN "stopped" ELSE "backoff"
    /\ stopSeen' = (stopSeen \/ STOP)
    /\ waits' = IF STOP THEN waits ELSE waits + 1
    /\ UNCHANGED <<STOP, backoff, sessionOpen, slept, to_sleep, lastTick,
                   failStreak, stopAt, logOk,
                   tickFailures>>
    /\ UNCHANGED cycleVars
    /\ UNCHANGED sideVars

\* Mutant of PollBackoffDone: the delay doubles without the cap.
PollBackoffDoneUncapped ==
    /\ ppc = "backoff"
    /\ backoff' = backoff * 2
    /\ ppc' = "outer"
    /\ UNCHANGED <<STOP, sessionOpen, slept, to_sleep, lastTick, waits,
                   failStreak, stopSeen, stopAt, logOk,
                   tickFailures>>
    /\ UNCHANGED cycleVars
    /\ UNCHANGED sideVars

\* asyncio.sleep(backoff) is over; backoff = min(max_backoff, backoff * 2)
PollBackoffDone ==
    /\ ppc = "backoff"
    /\ backoff' = Min(MaxBackoff, backoff * 2)
    /\ ppc' = "outer"
    /\ UNCHANGED <<STOP, sessionOpen, slept, to_sleep, lastTick, waits,
                   failStreak, stopSeen, stopAt, logOk,
                   tickFailures>>
    /\ UNCHANGED cycleVars
    /\ UNCHANGED sideVars

\* notification.log becomes unwritable (disk full, permissions) or writable
\* again
EnvLog ==
    /\ ppc \notin {"off", "stopped", "crashed"}
    /\ logOk' = ~logOk
    /\ UNCHANGED <<STOP, ppc, backoff, sessionOpen, slept, to_sleep, lastTick,
                   waits, failStreak, stopSeen, stopAt,
                   tickFailures>>
    /\ UNCHANGED cycleVars
    /\ UNCHANGED sideVars

(***************************************************************************)
(* Masked environment summary: dump_env_status of scripts/poller.py        *)
(***************************************************************************)
\* the env lines written
MaxDumps == 1

\* v[:4]
MaskPrefixLen == 4

\* len(v) > 64
LongLimit == 64

\* three of the nine keys of dump_env_status, as sequences of characters:
\* SMTP_HOST, SMTP_PASS, SENDGRID_API_KEY
DumpKeys ==
    << <<"S", "M", "T", "P", "_", "H", "O", "S", "T">>,
       <<"S", "M", "T", "P", "_", "P", "A", "S", "S">>,
       <<"S", "E", "N", "D", "G", "R", "I", "D", "_", "A", "P", "I", "_",
         "K", "E", "Y">> >>

\* sensitive = ('PASS', 'KEY', 'TOKEN', 'SECRET')
SensitiveWords ==
    { <<"P", "A", "S", "S">>, <<"K", "E", "Y">>, <<"T", "O", "K", "E", "N">>,
      <<"S", "E", "C", "R", "E", "T">> }

\* sub in s
Contains(s, sub) ==
    \E i \in 1..(Len(s) - Len(sub) + 1) : SubSeq(s, i, i + Len(sub) - 1) = sub

\* any(s in k.upper() for s in sensitive); the keys are upper case
Sensitive(k) == \E w \in SensitiveWords : Contains(k, w)

\* v[:n]
Take(v, n) == SubSeq(v, 1, Min(n, Len(v)))

Ellipsis == <<".", ".", ".">>

\* a value of 65 characters
LongValue == [i \in 1..(LongLimit + 1) |-> "h"]

\* the values of an environment variable: of a sensitive key a secret of 4
\* or of 7 characters, of another key a short or a long value; the empty
\* value stands for an unset variable too
EnvValues(k) ==
    IF Sensitive(k)
    THEN { <<>>, <<"a", "b", "c", "d">>, <<"s", "3", "c", "r", "e", "t", "!">> }
    ELSE { <<>>, <<"m", "x", ".", "e", "x">>, LongValue }

\* the environment: the value of each key of DumpKeys
DumpEnvs ==
    {env \in [1..Len(DumpKeys) -> UNION {EnvValues(DumpKeys[i]) :
                                            i \in 1..Len(DumpKeys)}] :
        \A i \in 1..Len(DumpKeys) : env[i] \in EnvValues(DumpKeys[i])}

\* _mask_val(k, v)
MaskVal(k, v) ==
    IF v = <<>> THEN <<>>
    ELSE IF Sensitive(k) THEN Take(v, MaskPrefixLen) \o Ellipsis
    ELSE IF Len(v) > LongLimit THEN Take(v, LongLimit) \o Ellipsis
    ELSE v

RECURSIVE JoinPairs(_, _)
\* ', '.join(pairs) with pairs[i] = f"{k}={_mask_val(k, v)}", from key i on
JoinPairs(env, i) ==
    IF i > Len(DumpKeys) THEN <<>>
    ELSE (DumpKeys[i] \o <<"=">> \o MaskVal(DumpKeys[i], env[i]))
         \o (IF i < Len(DumpKeys) THEN <<",", " ">> ELSE <<>>)
         \o JoinPairs(env, i + 1)

\* the text of the env line after the timestamp
EnvLine(env) == <<"e", "n", "v", ":", " ">> \o JoinPairs(env, 1)

\* dump_env_status has not been called
DumpOff == poller_log = <<>>

\* dump_env_status(path): the line is appended to the log, or the write
\* fails and the exception is swallowed
DumpEnvStatus ==
    /\ Len(poller_log) < MaxDumps
    /\ \E env \in DumpEnvs, write_ok \in BOOLEAN :
        poller_log' = IF write_ok
                      THEN Append(poller_log,
                                  [env |-> env, text |-> EnvLine(env)])
                      ELSE poller_log
    /\ UNCHANGED dumpFrame

(***************************************************************************)
(* Specifications                                                          *)
(***************************************************************************)
\* the state files a cycle can find
DictFiles ==
    {FileOf("dict", d, {}) :
        d \in UNION {[S -> Statuses] : S \in SUBSET AllKeyStrs}}

LegacyFiles == {FileOf("list", EmptyDict, l) : l \in SUBSET AllKeys}

OtherFiles ==
    {FileOf(kind, EmptyDict, {}) :
        kind \in {"missing", "unreadable", "invalid", "other"}}

InitFiles == DictFiles \cup LegacyFiles \cup OtherFiles

InitCycle ==
    /\ history = <<>>
    /\ pc = "idle"
    /\ recipients = <<>>
    /\ prev = EmptyDict
    /\ new_notified = EmptyDict
    /\ produced = <<>>
    /\ fetched = <<>>
    /\ emailCalls = <<>>
    /\ lastCycle = [completed |-> FALSE, only_full |-> {}]
    /\ lastCall = NoCall
    /\ readOk = TRUE
    /\ written = "none"

InitLocals ==
    /\ InitCycle
    /\ PollerOff
    /\ NormalizerOff
    /\ FollowerOff
    /\ MonitorOff
    /\ DumpOff
    /\ TasksOff

\* cycles under a free renderer
Init ==
    /\ InitLocals
    /\ notifiedFile \in InitFiles
    /\ plan = NoPlan

Next == CycleBegin \/ CycleFetch \/ CycleFinish

Spec == Init /\ [][Next]_vars

\* cycles that all receive the same records
InitReplay ==
    /\ InitLocals
    /\ notifiedFile \in InitFiles
    /\ plan \in [1..Len(Starts) -> FetchResults]

SpecReplay == InitReplay /\ [][Next]_vars

\* the state files of InitFaults: written by earlier cycles of this model,
\* missing, or not JSON
FaultFiles ==
    {FileOf("dict", d, {}) :
        d \in UNION {[S -> ObservedStatuses] : S \in SUBSET AllKeyStrs}}
        \cup {FileOf(kind, EmptyDict, {}) : kind \in {"missing", "invalid"}}

InitFaults ==
    /\ InitLocals
    /\ notifiedFile \in FaultFiles
    /\ plan = NoPlan

NextFaults == CycleBeginFaults \/ CycleFetch \/ CycleFinishFaults

\* cycles under a free renderer, while reads and writes of notified.json
\* can fail
SpecFaults == InitFaults /\ [][NextFaults]_vars

\* direct calls of send_email and send_line
InitDispatch ==
    /\ InitLocals
    /\ notifiedFile = FileOf("missing", EmptyDict, {})
    /\ plan = NoPlan

NextDispatch == CallSendEmail \/ CallSendLine

SpecDispatch == InitDispatch /\ [][NextDispatch]_vars

\* run_poller from its first line, with recipients.txt empty and
\* notification.log writable
InitPoller ==
    /\ InitCycle
    /\ notifiedFile = FileOf("missing", EmptyDict, {})
    /\ plan = NoPlan
    /\ STOP = FALSE
    /\ ppc = "outer"
    /\ backoff = BackoffSeed
    /\ sessionOpen = FALSE
    /\ slept = 0
    /\ to_sleep = 0
    /\ lastTick = "none"
    /\ waits = 0
    /\ failStreak = 0
    /\ stopSeen = FALSE
    /\ stopAt = "none"
    /\ logOk = TRUE
    /\ tickFailures = 0
    /\ NormalizerOff
    /\ FollowerOff
    /\ MonitorOff
    /\ DumpOff
    /\ TasksOff

\* the steps of run_poller
PollerStep ==
    \/ PollOuterCheck
    \/ PollAcquire
    \/ PollInnerCheck
    \/ PollTick
    \/ PollTickEnd
    \/ PollSleepCheck
    \/ PollSleepChunk
    \/ PollClose
    \/ PollAfter
    \/ PollBackoffDone

NextPoller == PollerStep \/ StopRequest

SpecPoller == InitPoller /\ [][NextPoller]_vars

\* The event loop runs the one coroutine of run_poller until it returns:
\* every await of it ends (the sleeps are finite, the renderer calls return
\* or raise), so a step of run_poller that stays possible is taken.
SpecPollerFair == SpecPoller /\ WF_vars(PollerStep)

NextPollerFaults == NextPoller \/ EnvLog

\* one call of fetch_parsed_with_page, for every list of items the page can
\* give
InitNormalize ==
    /\ InitCycle
    /\ PollerOff
    /\ notifiedFile = FileOf("missing", EmptyDict, {})
    /\ plan = NoPlan
    /\ data \in RawLists
    /\ deduped = <<>>
    /\ fpc = "evaluated"
    /\ FollowerOff
    /\ MonitorOff
    /\ DumpOff
    /\ TasksOff

NextNormalize == FetchPostProcess

SpecNormalize == InitNormalize /\ [][NextNormalize]_vars

\* follow_file of one path from its call, the path existing or not
InitFollow ==
    /\ InitCycle
    /\ PollerOff
    /\ NormalizerOff
    /\ notifiedFile = FileOf("missing", EmptyDict, {})
    /\ plan = NoPlan
    /\ fileLen \in {[i \in Inodes |-> IF i = 1 THEN n ELSE 0] : n \in 0..1}
    /\ pathIno \in {NoFile, 1}
    /\ inodesUsed = pathIno
    /\ pathIno = NoFile => fileLen[1] = 0
    /\ fh = NoFile
    /\ fhPos = 0
    /\ last_inode = NoFile
    /\ delivered = <<>>
    /\ reopened = FALSE
    /\ MonitorOff
    /\ DumpOff
    /\ TasksOff

NextFollow == LogAppend \/ LogRotate \/ LogCreate \/ FollowOpen \/ FollowRead

SpecFollow == InitFollow /\ [][NextFollow]_vars

\* monitor_loop after the two follower threads are started
InitMonitor ==
    /\ InitCycle
    /\ PollerOff
    /\ NormalizerOff
    /\ FollowerOff
    /\ notifiedFile = FileOf("missing", EmptyDict, {})
    /\ plan = NoPlan
    /\ now = 0
    /\ advances = 0
    /\ stats = [k \in StatKeys |-> <<>>]
    /\ handling = [f \in Followers |-> "idle"]
    /\ hkey = [f \in Followers |-> "none"]
    /\ hstale = [f \in Followers |-> FALSE]
    /\ rpc = "report"
    /\ rkey = 1
    /\ pending = <<>>
    /\ observed = [k \in ObservedKeys |-> <<>>]
    /\ alerts = 0
    /\ report = NoReport
    /\ DumpOff
    /\ TasksOff

NextMonitor ==
    \/ ClockAdvance
    \/ \E f \in Followers : HandlerLoad(f)
    \/ \E f \in Followers : HandlerAppend(f)
    \/ HandlerNotifFailed
    \/ RollupReport
    \/ RollupFilter
    \/ RollupStore
    \/ RollupWake

SpecMonitor == InitMonitor /\ [][NextMonitor]_vars

\* the background loop and a trigger-now request in one event loop, on a
\* calendar that does not change while they run
InitTasks ==
    /\ InitCycle
    /\ PollerOff
    /\ NormalizerOff
    /\ FollowerOff
    /\ MonitorOff
    /\ DumpOff
    /\ notifiedFile \in DictFiles
    /\ plan = NoPlan
    /\ tasks = [t \in TaskIds |-> IdleTask(0)]
    /\ world \in [1..NumSlots -> ObservedStatuses]
    /\ sees \in [TaskIds -> SUBSET (1..NumSlots)]

NextTasks ==
    \/ \E t \in TaskIds : TaskBegin(t)
    \/ \E t \in TaskIds : TaskFetch(t)
    \/ \E t \in TaskIds : TaskFinish(t)

SpecTasks == InitTasks /\ [][NextTasks]_vars

\* the two writers of secrets to logs: dump_env_status and send_line
NextSecrets == DumpEnvStatus \/ CallSendLine

SpecSecrets == InitDispatch /\ [][NextSecrets]_vars

\* run_poller while notification.log can become unwritable
SpecPollerFaults == InitPoller /\ [][NextPollerFaults]_vars

(***************************************************************************)
(* Properties                                                              *)
(***************************************************************************)
\* the records observed so far in the current cycle, in order
Obs == Observations(fetched)

\* the state the next cycle would load
Persisted == LoadNotified(notifiedFile)

\* the keys of the records of seq, in order
RECURSIVE KeysOf(_)
KeysOf(seq) ==
    IF seq = <<>> THEN <<>>
    ELSE <<KeyStrOf(Head(seq))>> \o KeysOf(Tail(seq))

\* how many of the keys are k
Count(keys, k) == Cardinality({i \in 1..Len(keys) : keys[i] = k})

\* how many records of seq have the key k
CountKey(seq, k) == Count(KeysOf(seq), k)

\* the status of the last record of seq (with the keys given) that has key k
LastOf(seq, keys, k) ==
    seq[CHOOSE i \in 1..Len(keys) :
            keys[i] = k /\ \A j \in (i + 1)..Len(keys) : keys[j] # k].status

\* every key is in d, with the status of the last record of seq that has it
StatusesKept(seq, keys, d) ==
    \A i \in 1..Len(keys) :
        /\ keys[i] \in DOMAIN d
        /\ (\A j \in (i + 1)..Len(keys) : keys[j] # keys[i]) =>
               d[keys[i]] = seq[i].status

\* every observed key is persisted with the status last observed for it
ObservedPersisted ==
    /\ notifiedFile.kind = "dict"
    /\ StatusesKept(Obs, KeysOf(Obs), notifiedFile.dict)

\* every record of recs has its key in d with the status of the last record
\* of seq that has this key
RecordedLast(recs, seq, keys, d) ==
    \A i \in 1..Len(recs) :
        Get(d, KeyStrOf(recs[i])) = LastOf(seq, keys, KeyStrOf(recs[i]))

\* no key of the set is among the keys
NoneFor(set, keys) == \A k \in set : Count(keys, k) = 0

\* every key of the set is among the keys as often as seq has a record of
\* that key with a status other than 'full'
OnePerOpen(set, keys, seq, seqKeys) ==
    \A k \in set :
        Count(keys, k) =
            Cardinality({i \in 1..Len(seq) :
                            seqKeys[i] = k /\ seq[i].status # "full"})

\* the cycle made one send_email call carrying the notifiable records if
\* there are such records and recipients, and no call otherwise
OneCallIfNeeded ==
    /\ Len(emailCalls) = IF produced # <<>> /\ recipients # <<>> THEN 1 ELSE 0
    /\ \A c \in 1..Len(emailCalls) :
        /\ emailCalls[c].body = Body(produced)
        /\ emailCalls[c].subject = Subject(produced)
        /\ emailCalls[c].recipients = recipients

\* C1: in a cycle, the notifiable list holds exactly the fetched records, in
\* order, whose status is not 'full' and differs from the status stored for
\* their key in the state loaded at the start of the cycle (no stored status
\* counts as different).
C1_NotifiableIffChanged ==
    pc \in {"fetching", "done", "raised"} =>
        LET Changed(r) ==
                /\ r.status # "full"
                /\ \/ KeyStrOf(r) \notin DOMAIN prev
                   \/ prev[KeyStrOf(r)] # r.status
        IN  /\ produced = SelectSeq(Obs, Changed)
            /\ pc = "fetching" => prev = LoadNotified(notifiedFile)

\* C1 witness: a completed cycle that notified a slot whose stored status was
\* another non-full status and did not notify a slot whose status is unchanged.
C1_Witness ==
    /\ pc = "done"
    /\ Len(produced) = 1
    /\ \E i, j \in 1..Len(Obs) :
        /\ Get(prev, KeyStrOf(Obs[i])) = "not_started"
        /\ Obs[i].status = "available"
        /\ produced[1] = Obs[i]
        /\ Get(prev, KeyStrOf(Obs[j])) = "available"
        /\ Obs[j].status = "available"

\* C2: after a cycle completes, the persisted status of every slot key
\* observed in the cycle is the status (last) observed for it, whatever the
\* notification outcome was.
C2_ObservedStatusPersisted == pc = "done" => ObservedPersisted

\* C2 witness: a completed cycle whose dispatch did not succeed and in which a
\* slot stored as 'available' was observed as 'full' and is stored as 'full'.
C2_Witness ==
    /\ pc = "done"
    /\ emailCalls # <<>>
    /\ ~emailCalls[1].run.result
    /\ \E i \in 1..Len(Obs) :
        /\ Get(prev, KeyStrOf(Obs[i])) = "available"
        /\ Obs[i].status = "full"
        /\ Get(Persisted, KeyStrOf(Obs[i])) = "full"

C4_ExactlyOneRecordAndCall ==
    pc = "done" =>
        \A k \in lastCycle.only_full :
            (\E i \in 1..Len(Obs) :
                KeyStrOf(Obs[i]) = k /\ Obs[i].status # "full") =>
                    /\ CountKey(produced, k) = 1
                    /\ Len(emailCalls) = 1

\* C4 amended: a key observed only as 'full' in a cycle gives no notifiable
\* record in that cycle; in the next cycle it gives one notifiable record for
\* each of its observations with a non-full status, and the cycle makes one
\* broadcast dispatch call carrying the notifiable records if the recipient
\* list is not empty, none if it is empty.
C4_FullThenOpen ==
    pc \in {"done", "raised"} =>
        /\ NoneFor(OnlyFull(fetched), KeysOf(produced))
        /\ OnePerOpen(lastCycle.only_full, KeysOf(produced), Obs, KeysOf(Obs))
        /\ OneCallIfNeeded

\* C4 witness: the second of two cycles, with a key that was 'full' in the
\* first, one notifiable record for it and one dispatch call carrying it.
C4_Witness ==
    /\ pc = "done"
    /\ Len(emailCalls) = 1
    /\ \E k \in lastCycle.only_full :
        /\ CountKey(produced, k) = 1
        /\ CountKey(Obs, k) = 1
        /\ \E i \in 1..Len(produced) :
            /\ KeyStrOf(produced[i]) = k
            /\ emailCalls[1].body[i] = Body(<<produced[i]>>)[1]

\* C5 as stated: a cycle that receives the same records as the completed
\* cycle before it, against the state that cycle persisted, has no notifiable
\* record and makes no dispatch.
C5_SecondRunSilent ==
    (pc = "done" /\ lastCycle.completed) =>
        produced = <<>> /\ emailCalls = <<>>

\* the providers before the j-th that are configured and fail
FailedBefore(call, j) ==
    {i \in 1..(j - 1) :
        Configured(call.env, Providers[i]) /\ call.net[Providers[i]] # "ok"}

\* C6 as stated: when the configured providers before a configured provider
\* all fail, at least one does, and that provider succeeds, then it is
\* attempted, send_email returns success, and the audit log holds a 'failed'
\* entry for each failed attempt and a 'success' entry for the successful one.
C6_FallbackOnFailure ==
    lastCall.fn = "send_email" =>
        \A j \in 2..3 :
            ( /\ FailedBefore(lastCall, j) # {}
              /\ \A i \in 1..(j - 1) :
                    Configured(lastCall.env, Providers[i]) =>
                        i \in FailedBefore(lastCall, j)
              /\ Configured(lastCall.env, Providers[j])
              /\ lastCall.net[Providers[j]] = "ok" ) =>
                LET run == lastCall.run
                IN  /\ \E a \in 1..Len(run.attempts) :
                        run.attempts[a].provider = Providers[j]
                    /\ run.result
                    /\ \A i \in FailedBefore(lastCall, j) :
                        \E e \in 1..Len(run.entries) :
                            /\ run.entries[e].method = Providers[i]
                            /\ run.entries[e].status = "failed"
                    /\ \E e \in 1..Len(run.entries) :
                        /\ run.entries[e].method = Providers[j]
                        /\ run.entries[e].status = "success"

\* the position of a provider in the order SendGrid, Mailgun, SMTP
ProviderIndex(p) == CHOOSE i \in 1..3 : Providers[i] = p

\* C7: send_email attempts the providers in the order SendGrid, Mailgun, SMTP;
\* a provider is attempted only if every earlier provider is unconfigured or
\* was attempted and failed; a successful attempt is the last attempt, and its
\* 'success' entry is the last entry the call writes to the audit log.
C7_OrderedShortCircuit ==
    lastCall.fn = "send_email" =>
        LET a == lastCall.run.attempts
            entries == lastCall.run.entries
        IN  /\ \A x, y \in 1..Len(a) :
                x < y => ProviderIndex(a[x].provider)
                             < ProviderIndex(a[y].provider)
            /\ \A x \in 1..Len(a) :
                \A i \in 1..(ProviderIndex(a[x].provider) - 1) :
                    \/ ~Configured(lastCall.env, Providers[i])
                    \/ \E y \in 1..(x - 1) :
                        /\ a[y].provider = Providers[i]
                        /\ a[y].outcome # "ok"
            /\ \A x \in 1..Len(a) :
                a[x].outcome = "ok" =>
                    /\ x = Len(a)
                    /\ lastCall.run.result
                    /\ entries # <<>>
                    /\ entries[Len(entries)].method = a[x].provider
                    /\ entries[Len(entries)].status = "success"
                    /\ Len(entries) = 1
            /\ history = lastCall.before \o entries

\* C7 witness: SendGrid raised, Mailgun succeeded, and SMTP, although
\* configured, was not attempted.
C7_Witness ==
    /\ lastCall.fn = "send_email"
    /\ Configured(lastCall.env, "smtp")
    /\ lastCall.run.attempts
           = <<Attempt("sendgrid", "exc"), Attempt("mailgun", "ok")>>
    /\ lastCall.run.result

\* the call ended in the dry-run: send_email fell through all providers, or
\* send_line was called without tokens
EndedInDryRun(call) ==
    IF call.fn = "send_email"
    THEN /\ ~PortRaises(call.env)
         /\ ~Configured(call.env, "smtp")
         /\ \A i \in 1..2 :
                Configured(call.env, Providers[i]) =>
                    call.net[Providers[i]] = "exc"
    ELSE call.fn = "send_line" /\ call.tokens = <<>>

\* C8 as stated: a call of send_email or send_line appends exactly one audit
\* entry for each provider or token attempt and one for a dry-run, and leaves
\* the entries already in the audit log as they are.
C8_OneEntryPerAttempt ==
    lastCall.fn # "none" =>
        /\ Len(lastCall.run.entries)
               = Len(lastCall.run.attempts)
                     + (IF EndedInDryRun(lastCall) THEN 1 ELSE 0)
        /\ history = lastCall.before \o lastCall.run.entries

\* C9 as stated: when send_email returns without success, the outcome
\* recorded in the audit log is 'dry-run'.
C9_FailureRecordedAsDryRun ==
    (lastCall.fn = "send_email" /\ ~lastCall.run.result
        /\ ~lastCall.run.raised) =>
        /\ lastCall.run.entries # <<>>
        /\ lastCall.run.entries[Len(lastCall.run.entries)].status = "dry-run"

\* C9 amended: when send_email returns without success it has recorded
\* exactly one audit entry; the outcome is 'dry-run' exactly when the call
\* falls through all three providers (SendGrid and Mailgun unconfigured or
\* raising, SMTP unconfigured); otherwise it is 'failed', with the provider
\* whose bad response or failed SMTP session ended the call as method.
C9_FailedOrDryRun ==
    (lastCall.fn = "send_email" /\ ~lastCall.run.result
        /\ ~lastCall.run.raised) =>
        LET run == lastCall.run
            e == run.entries[1]
        IN  /\ Len(run.entries) = 1
            /\ e.status \in {"failed", "dry-run"}
            /\ e.status = "dry-run" <=> EndedInDryRun(lastCall)
            /\ e.status = "dry-run" => e.method = "dry-run"
            /\ e.status = "failed" =>
                /\ run.attempts # <<>>
                /\ e.method = run.attempts[Len(run.attempts)].provider
                /\ run.attempts[Len(run.attempts)].outcome
                       = (IF e.method = "smtp" THEN "exc" ELSE "bad")

\* C9 witness: every configured provider was attempted and failed, the last
\* one (SMTP) after SendGrid raised, and the outcome recorded is 'failed'.
C9_Witness ==
    /\ lastCall.fn = "send_email"
    /\ ~lastCall.run.result
    /\ lastCall.run.attempts
           = <<Attempt("sendgrid", "exc"), Attempt("smtp", "exc")>>
    /\ lastCall.run.entries[1].status = "failed"

\* C10 as stated: when no provider is configured, the send_email call of a
\* cycle raises no error, attempts no provider and appends exactly one audit
\* entry, with outcome 'dry-run'; the cycle persists its state update and
\* returns.
C10_NoProviderDryRun ==
    \A c \in 1..Len(emailCalls) :
        emailCalls[c].no_provider =>
            LET run == emailCalls[c].run
            IN  /\ pc = "done"
                /\ ~run.raised
                /\ run.attempts = <<>>
                /\ ~run.result
                /\ Len(run.entries) = 1
                /\ run.entries[1].method = "dry-run"
                /\ run.entries[1].status = "dry-run"
                /\ history = emailCalls[c].before \o run.entries
                /\ notifiedFile = SaveNotified(new_notified)
                /\ ObservedPersisted

\* C11 as stated: send_line with N >= 1 tokens attempts every token, in
\* order, appends exactly N audit entries, one per token, and returns success
\* exactly when the attempt of at least one token succeeded.
C11_FanOutAllTokens ==
    (lastCall.fn = "send_line" /\ lastCall.tokens # <<>>) =>
        LET run == lastCall.run
            n == Len(lastCall.tokens)
        IN  /\ Len(run.attempts) = n
            /\ \A i \in 1..Len(run.attempts) :
                run.attempts[i].provider = lastCall.tokens[i]
            /\ Len(run.entries) = n
            /\ history = lastCall.before \o run.entries
            /\ run.result <=>
                   \E i \in 1..Len(run.attempts) : run.attempts[i].outcome = "ok"

\* C12 as stated: after a Renderer failure during a tick the session is torn
\* down and run_poller goes through the backoff wait and a new session
\* before it observes again: no sleep and no further tick follows on the
\* session whose last tick had a failed fetch.
C12_RendererFailureBacksOff ==
    lastTick = "fetch_failed" =>
        ppc \in {"ticked", "closing", "after", "backoff", "outer", "acquiring",
                 "stopped"}

\* C13 as stated: after an exception escaped a tick no further tick and no
\* sleep follows on that session, the page and the browser are closed before
\* run_poller goes on, a backoff wait has elapsed when the next session is
\* acquired, and run_poller ends only when a stop was requested.
C13_TickExceptionEndsSession ==
    lastTick = "raised" =>
        /\ ppc \in {"ticked", "closing", "after", "backoff", "outer",
                    "acquiring", "stopped"}
        /\ ppc \in {"after", "backoff", "outer", "acquiring", "stopped"} =>
               ~sessionOpen
        /\ ppc = "acquiring" => waits >= 1
        /\ ppc = "stopped" => STOP

\* C14 as stated: the delay is within [1, 300], and the k-th consecutive
\* backoff wait after failed acquisitions lasts min(300, 2^(k-1)).
C14_WaitAfterFailedAcquisitions ==
    /\ backoff \in BackoffSeed..MaxBackoff
    /\ (ppc = "backoff" /\ failStreak >= 1) =>
           backoff = Min(MaxBackoff, 2 ^ (failStreak - 1))

\* C14 amended: the delay is within [1, 300]; it is the seed while a session
\* is open; the k-th consecutive backoff wait since the last successful
\* acquisition (or since the start), whether it follows a failed tick or a
\* failed acquisition, lasts min(300, 2^(k-1)), and the delay is doubled, up
\* to the cap, when the wait is over.
C14_BackoffDoublesCapped ==
    /\ backoff \in BackoffSeed..MaxBackoff
    /\ sessionOpen => (waits = 0 /\ backoff = BackoffSeed)
    /\ ppc = "backoff" =>
           (waits >= 1 /\ backoff = Min(MaxBackoff, 2 ^ (waits - 1)))
    /\ ppc \in {"outer", "acquiring", "after"} =>
           backoff = Min(MaxBackoff, 2 ^ waits)

\* a capped wait that follows failed acquisitions after a failed tick
C14_Witness ==
    /\ ppc = "backoff"
    /\ backoff = MaxBackoff
    /\ failStreak >= 1
    /\ waits = failStreak + 1

\* C15: once a stop is requested run_poller reaches Stopped.  A tick in
\* flight ends with the session still open, and with its state persisted
\* when the cycle returned; once run_poller has read the request it starts no
\* tick, no sleep and no acquisition; run_poller is Stopped only after a
\* request, with the session closed; and nothing follows Stopped.
C15_StopReachesStopped ==
    /\ STOP ~> (ppc = "stopped")
    /\ [][ppc = "tick" => (sessionOpen' /\ ppc' \in {"tick", "ticked"})]_vars
    /\ [](ppc = "ticked" =>
            (sessionOpen /\ (lastTick # "raised" => notifiedFile.kind = "dict")))
    /\ [](stopSeen => ppc \in {"inner", "closing", "after", "stopped"})
    /\ [][(stopSeen /\ ppc = "inner") => ppc' \in {"inner", "closing"}]_vars
    /\ [](ppc = "stopped" => (STOP /\ ~sessionOpen))
    /\ [][ppc # "stopped"]_vars

\* Stopped after a request that arrived during a tick whose cycle returned
C15_Witness ==
    /\ ppc = "stopped"
    /\ stopAt = "tick"
    /\ lastTick \in {"returned", "fetch_failed"}
    /\ notifiedFile.kind = "dict"

\* C16 as stated: whatever fails, run_poller keeps running; it ends only by
\* returning after STOP was set, never by an exception.
C16_ReturnsOnlyAfterStop ==
    /\ ppc # "crashed"
    /\ ppc = "stopped" => STOP

\* C17 as stated: no step of a cycle, whether or not the state read, a fetch
\* or the state write fails, removes a slot key from the persisted state.
C17_NeverEvicts ==
    [][DOMAIN LoadNotified(notifiedFile)
           \subseteq DOMAIN LoadNotified(notifiedFile')]_vars

\* every key of d that is not among the keys has in p the status it has in d
AbsentKept(d, keys, p) ==
    \A k \in DOMAIN d : Count(keys, k) = 0 => Get(p, k) = d[k]

\* no record of recs has the status that d holds for its key
NoneAsStored(recs, d) ==
    \A i \in 1..Len(recs) : Get(d, KeyStrOf(recs[i])) # recs[i].status

\* C18: a cycle that returned has left the stored status of every key absent
\* from its batches as it was, a cycle that raised has left the whole state
\* as it was, and a record observed with the status stored for its key is
\* never notifiable.
C18_AbsentKeepsStatus ==
    /\ pc = "done" => AbsentKept(prev, KeysOf(Obs), Persisted)
    /\ pc = "raised" => Persisted = prev
    /\ pc \in {"fetching", "done"} => NoneAsStored(produced, prev)

\* a second cycle with a stored key absent from its batches and an open slot
\* observed with its stored status, which notifies nothing
C18_Witness ==
    /\ pc = "done"
    /\ lastCycle.completed
    /\ \E k \in DOMAIN prev : CountKey(Obs, k) = 0 /\ Get(Persisted, k) = prev[k]
    /\ \E i \in 1..Len(Obs) :
        /\ Obs[i].status # "full"
        /\ Get(prev, KeyStrOf(Obs[i])) = Obs[i].status
    /\ produced = <<>>

\* C19 as stated: a cycle whose _save_notified failed has returned normally,
\* and the state the next cycle loads is the state that was persisted before
\* the failed write (the state this cycle loaded, when its read succeeded).
C19_FailedWriteKeepsOldState ==
    written \in {"open_failed", "truncated"} =>
        /\ pc = "done"
        /\ readOk => Persisted = prev

\* the kinds of state file _load_notified cannot use
UnusableKinds == {"missing", "unreadable", "invalid", "other"}

RECURSIVE NonFull(_)
\* the records of seq whose status is not 'full', in order
NonFull(seq) ==
    IF seq = <<>> THEN <<>>
    ELSE IF Head(seq).status # "full" THEN <<Head(seq)>> \o NonFull(Tail(seq))
    ELSE NonFull(Tail(seq))

\* C20: a missing, unreadable or malformed state file loads as the empty
\* mapping, the cycle goes on, and every non-full record it observes is
\* notifiable.
C20_UnusableStateLoadsEmpty ==
    notifiedFile.kind \in UnusableKinds =>
        /\ Persisted = EmptyDict
        /\ pc = "fetching" => (prev = EmptyDict /\ produced = NonFull(Obs))

\* a cycle over an unreadable state file that has observed both start dates
\* and found open slots
C20_Witness ==
    /\ pc = "fetching"
    /\ notifiedFile.kind = "unreadable"
    /\ Len(fetched) = Len(Starts)
    /\ Len(produced) >= 2
    /\ \E i \in 1..Len(Obs) : Obs[i].status = "full"

\* the record rec is one of the records of recs
Among(rec, recs) == \E j \in 1..Len(recs) : recs[j] = rec

\* every record of seq whose key has the placeholder status in d is among
\* recs exactly when its status is not 'full'
MigratedNotified(seq, d, recs) ==
    \A i \in 1..Len(seq) :
        Get(d, KeyStrOf(seq[i])) = Placeholder =>
            (Among(seq[i], recs) <=> seq[i].status # "full")

\* every key of seq that has the placeholder status in d has in p the status
\* of the last record of seq that has this key
MigratedReplaced(seq, keys, d, p) ==
    \A i \in 1..Len(keys) :
        Get(d, keys[i]) = Placeholder =>
            (Get(p, keys[i]) = LastOf(seq, keys, keys[i])
                /\ Get(p, keys[i]) # Placeholder)

\* C21: a legacy state file loads as a mapping of its keys to the
\* placeholder, which is no real status; in the cycle that loaded it a
\* migrated slot is notifiable exactly when it is observed with a status
\* other than 'full', and when the cycle has returned the observed status
\* has replaced the placeholder.
C21_LegacyPlaceholder ==
    /\ Placeholder \notin Statuses
    /\ notifiedFile.kind = "list" =>
           Persisted = [k \in {KeyToStr(item) : item \in notifiedFile.list}
                            |-> Placeholder]
    /\ pc \in {"fetching", "done"} => MigratedNotified(Obs, prev, produced)
    /\ pc = "done" => MigratedReplaced(Obs, KeysOf(Obs), prev, Persisted)

\* the first cycle over a legacy file has returned: one migrated slot was
\* observed as 'available' and notified, another as 'full' and not notified
C21_Witness ==
    /\ pc = "done"
    /\ ~lastCycle.completed
    /\ \E i \in 1..Len(Obs), j \in 1..Len(Obs) :
        /\ Get(prev, KeyStrOf(Obs[i])) = Placeholder
        /\ Obs[i].status = "available"
        /\ Among(Obs[i], produced)
        /\ Get(Persisted, KeyStrOf(Obs[i])) = "available"
        /\ Get(prev, KeyStrOf(Obs[j])) = Placeholder
        /\ Obs[j].status = "full"
        /\ ~Among(Obs[j], produced)
        /\ Get(Persisted, KeyStrOf(Obs[j])) = "full"

\* a fetch of the current cycle raised
FetchFailed == \E i \in 1..Len(fetched) : ~fetched[i].ok

\* the record differs from what d holds for its key and is not 'full'
Changed(rec, d) == rec.status # "full" /\ Get(d, KeyStrOf(rec)) # rec.status

\* every record of seq is among recs exactly when it is notifiable against d
DiffedAll(seq, d, recs) ==
    \A i \in 1..Len(seq) : Among(seq[i], recs) <=> Changed(seq[i], d)

KeysAdded(d, e, keys) ==
    DOMAIN d = DOMAIN e \cup {keys[i] : i \in 1..Len(keys)}

\* recs holds exactly the records of seq that are notifiable against d, in
\* the order of seq
ExactlyChanged(recs, seq, d) ==
    LET IsChanged(r) == Changed(r, d) IN recs = SelectSeq(seq, IsChanged)

\* C23: a cycle makes at most one send_email call; when it has passed its
\* dispatch step it has made the call exactly if there are notifiable records
\* and recipients, with the notifiable records of all start dates as its
\* message; when it has returned, the state store is a mapping whose keys are
\* the keys loaded and the keys observed.
C23_OneBroadcastPerCycle ==
    /\ Len(emailCalls) <= 1
    /\ pc \in {"done", "raised"} =>
           (OneCallIfNeeded /\ ExactlyChanged(produced, Obs, prev))
    /\ pc = "done" =>
           (notifiedFile.kind = "dict"
                /\ KeysAdded(notifiedFile.dict, prev, KeysOf(Obs)))

\* the slot of the first start date went from 'full' to 'available', the
\* slot of the second stayed 'full': one notifiable record, one call, two
\* entries
C23_Witness ==
    /\ pc = "done"
    /\ Len(fetched) = 2
    /\ fetched[1].ok /\ fetched[2].ok
    /\ Len(fetched[1].items) = 1 /\ Len(fetched[2].items) = 1
    /\ KeyStrOf(fetched[1].items[1]) # KeyStrOf(fetched[2].items[1])
    /\ Get(prev, KeyStrOf(fetched[1].items[1])) = "full"
    /\ fetched[1].items[1].status = "available"
    /\ Get(prev, KeyStrOf(fetched[2].items[1])) = "full"
    /\ fetched[2].items[1].status = "full"
    /\ produced = <<fetched[1].items[1]>>
    /\ Len(emailCalls) = 1
    /\ Cardinality(DOMAIN Persisted) = 2

\* the index of the first record of seq that has the key
FirstWith(seq, key) ==
    CHOOSE i \in 1..Len(seq) :
        SlotKey(seq[i]) = key /\ \A j \in 1..(i - 1) : SlotKey(seq[j]) # key

\* out has no key twice, has every key of results, and holds for each key
\* the first record of results that has it
FirstOfEachKey(results, out) ==
    /\ \A i, j \in 1..Len(out) : SlotKey(out[i]) = SlotKey(out[j]) => i = j
    /\ \A i \in 1..Len(results) :
        \E j \in 1..Len(out) : SlotKey(out[j]) = SlotKey(results[i])
    /\ \A j \in 1..Len(out) :
        /\ \E i \in 1..Len(results) : SlotKey(results[i]) = SlotKey(out[j])
        /\ out[j] = results[FirstWith(results, SlotKey(out[j]))]

\* C24: the records fetch_parsed_with_page returns have pairwise different
\* slot keys, every key of the parsed items is among them, and the record
\* returned for a key is the first parsed item that has it.
C24_DedupeFirstWins ==
    fpc = "returned" => FirstOfEachKey(ParseItems(data), deduped)

\* three items, the first and the last with the same key and different
\* statuses: the first is returned, the last is dropped
C24_Witness ==
    /\ fpc = "returned"
    /\ Len(data) = 3
    /\ Len(deduped) = 2
    /\ SlotKey(ParseItem(data[1])) = SlotKey(ParseItem(data[3]))
    /\ data[1].start # data[3].start
    /\ ParseItem(data[1]).status # ParseItem(data[3]).status
    /\ \E j \in 1..2 : deduped[j] = ParseItem(data[1])

\* the record has a date and a time
Concrete(x) == x.date # None /\ x.time # None

\* C25 as stated: the records returned are in ascending order of (date,
\* time), and no record with a date and a time comes after a record that
\* lacks one of them.
C25_SortedMissingLast ==
    fpc = "returned" =>
        \A i, j \in 1..Len(deduped) :
            i < j =>
                /\ (Concrete(deduped[i]) /\ Concrete(deduped[j])) =>
                       KeyLeq(<<deduped[i].date, deduped[i].time>>,
                              <<deduped[j].date, deduped[j].time>>)
                /\ Concrete(deduped[j]) => Concrete(deduped[i])

\* the lines of file i passed to callback
DeliveredOf(i) == {k \in 1..Len(delivered) : delivered[k][1] = i}

\* C26: after follow_file has left a rotated file on a read-miss and has
\* opened the replacement, every line of the replacement before the read
\* position, the lines written before the reopen included, has been passed
\* to the callback exactly once.
C26_ReplacementReadFromStart ==
    (reopened /\ fh # NoFile) =>
        \A n \in 1..fhPos :
            Cardinality({k \in DeliveredOf(fh) : delivered[k][2] = n}) = 1

\* the lines of a list's pattern class observed at or after the cutoff
ObservedRecent(key, cutoff) ==
    Cardinality({i \in 1..Len(observed[key]) : observed[key][i] >= cutoff})

\* the dry-run and failure lines observed, of both streams
AlertLines(obs) ==
    Len(obs["dry_run_events"]) + Len(obs["smtp_fail_events"]) + Len(obs["none"])

\* C27: an ALERT is written in the step in which a dry-run or failure line
\* of either stream is handled, and a rollup writes a stronger alert exactly
\* when at least 1 failure line or at least 5 dry-run lines were observed in
\* the streams in its last-10-minutes window.
C27_AlertsAndEscalation ==
    [][/\ alerts' - alerts = AlertLines(observed') - AlertLines(observed)
       /\ (rpc = "report" /\ rpc' = "filter") =>
            ((report'.critical \/ report'.warning) <=>
                \/ ObservedRecent("smtp_fail_events", now - Window)
                     + ObservedRecent("none", now - Window) >= FailThreshold
                \/ ObservedRecent("dry_run_events", now - Window)
                     >= DryThreshold)]_vars

\* C28: every event a follower has recorded that is younger than the
\* retention horizon is in the list of its key, whatever the interleaving of
\* the two handlers with the rollup.
C28_NoEventLost ==
    \A key \in StatKeys : \A i \in 1..Len(observed[key]) :
        (observed[key][i] >= now - Retention) =>
            \E j \in 1..Len(stats[key]) :
                stats[key][j] = Event(observed[key][i], i)

\* C29: in the inter-tick sleep of run_poller a stop request ends the sleep
\* within one increment: once STOP is set the only increment that completes
\* is the one in progress when it was set, the loop test then leaves the
\* sleep with the rest of the interval unslept, and the tick loop starts no
\* further tick.  Without a stop request the sleep ends only when the time
\* slept equals max(0, interval - elapsed), no increment is longer than one
\* second, and the sleep loop terminates.
C29_SleepObservesStop ==
    /\ [][
          /\ (STOP /\ ppc = "in_sleep" /\ ppc' # ppc) => stopAt = "in_sleep"
          /\ (STOP /\ ppc = "sleep_check") => ppc' = "inner"
          /\ (STOP /\ ppc = "inner") => ppc' = "closing"
          /\ (~STOP /\ ppc = "sleep_check" /\ ppc' = "inner") =>
                slept = to_sleep
          /\ (slept' # slept /\ ppc = "in_sleep") =>
                (slept' - slept <= SleepChunk /\ slept' <= to_sleep)
       ]_vars
    /\ (ppc \in {"sleep_check", "in_sleep"}) ~> (ppc = "inner")

\* STOP was set during the first increment of a sleep of one and a half
\* seconds; the sleep ended after that increment and the session is closing
C29_Witness ==
    /\ ppc = "closing"
    /\ stopAt = "in_sleep"
    /\ slept = SleepChunk
    /\ to_sleep = MaxSleep
    /\ lastTick # "raised"

\* C30: only a short prefix of a secret is logged: the env line of
\* dump_env_status does not contain the full value of any sensitive key with
\* a non-empty value, and an audit entry of send_line holds at most the
\* first 8 characters of a token, never a whole token.
C30_OnlyPrefixLogged ==
    /\ \A n \in 1..Len(poller_log) : \A i \in 1..Len(DumpKeys) :
          (Sensitive(DumpKeys[i]) /\ poller_log[n].env[i] # <<>>) =>
              ~Contains(poller_log[n].text, poller_log[n].env[i])
    /\ (lastCall.fn = "send_line") =>
          \A n \in 1..Len(lastCall.run.entries) :
              \A j \in 1..Len(lastCall.run.entries[n].tokens) :
                  /\ Len(lastCall.run.entries[n].tokens[j]) <= TokenPrefixLen
                  /\ \A k \in 1..Len(lastCall.tokens) :
                        lastCall.run.entries[n].tokens[j] # lastCall.tokens[k]

\* the keys of the notifiable records of the cycle
ProducedKeys == {KeyStrOf(produced[i]) : i \in 1..Len(produced)}

\* C31: in a cycle that has returned, no slot key appears twice in the
\* notifiable list, and the dispatched message has one line per notified
\* key, also when the fetches of both target dates return the same slot.
C31_KeyOncePerCycle ==
    (pc = "done") =>
        /\ \A i \in 1..Len(produced) : \A j \in 1..Len(produced) :
              (KeyStrOf(produced[i]) = KeyStrOf(produced[j])) => (i = j)
        /\ \A c \in 1..Len(emailCalls) :
              Len(emailCalls[c].body) = Cardinality(ProducedKeys)

\* cycle t has dispatched a message that names slot i
Dispatched(t, i) ==
    /\ tasks[t].sent
    /\ \E n \in 1..Len(tasks[t].produced) :
          KeyStrOf(tasks[t].produced[n]) = KeyToStr(SlotKey(SlotOrder[i]))

\* C32: when the cycle of the background loop and the cycle of a
\* trigger-now request have both returned, whatever their interleaving, no
\* slot was dispatched by both, and notified.json holds the status every
\* one of them recorded for the slots it fetched.
C32_InterleavedCycles ==
    (\A t \in TaskIds : tasks[t].pc = "done") =>
        /\ \A i \in 1..NumSlots :
              ~(Dispatched("background", i) /\ Dispatched("notify_now", i))
        /\ \A t \in TaskIds : \A i \in tasks[t].seen :
              Get(LoadNotified(notifiedFile), KeyToStr(SlotKey(SlotOrder[i])))
                  = world[i]

\* C33: the backoff wait that follows a session that was acquired and whose
\* tick failed lasts exactly the seed, however many such sessions came in a
\* row; a wait longer than the seed comes only after a failed acquisition.
C33_TickFailureWaitsSeed ==
    ppc = "backoff" =>
        /\ (failStreak = 0) => (backoff = BackoffSeed)
        /\ (backoff > BackoffSeed) => (failStreak >= 1)
        /\ (tickFailures >= 1) => (failStreak = 0 /\ backoff = BackoffSeed)

\* the wait after the third session in a row that was acquired and ended by
\* a failed tick
C33_Witness ==
    /\ ppc = "backoff"
    /\ tickFailures = MaxTickFailures
    /\ lastTick = "raised"
    /\ backoff = BackoffSeed

====
